---------------------------- MODULE Spec2Model ----------------------------
(***************************************************************************)
(* DGA-Detector: the capture -> filter -> validate -> publish pipeline.    *)
(*                                                                         *)
(* Threads started by Detector::Run:                                       *)
(*   capture    NetworkAnalyser::StartCapture (pcap_loop + PacketHandler)  *)
(*   filters    Filter::ProcessPacket                                      *)
(*   validator  DomainValidator::ProcessDomains                            *)
(*   publisher  Publisher::Process                                         *)
(* connected by three MPMCQueueWrapper queues and stopped by the global    *)
(* atomic cancellation_token.                                              *)
(*                                                                         *)
(* std::map / std::unordered_map values are modelled as sets of            *)
(* <<key, value>> pairs, so that "one entry per key" is a property of the  *)
(* operations and not of the representation.                               *)
(*                                                                         *)
(* Variables whose comment says "history" are not program state: they      *)
(* record what the program did so that properties can refer to it.         *)
(***************************************************************************)
EXTENDS Integers, Sequences, FiniteSets, TLC

(***************************************************************************)
(* Bounds of the model.                                                    *)
(***************************************************************************)
\* number of frames the interface delivers in one run
MaxFrames == 2
\* queue capacities computed by Arguments::CalculateSizes, scaled down
PacketQueueSize == 1
DNSInfoQueueSize == 1
PublisherQueueSize == 2
\* Detector::number_of_threads_ (filter threads: number_of_threads_ - 3
\* above 3, else 1)
number_of_threads_ == 3
\* DomainValidator::MAX_BATCH_SIZE / MAX_CYCLE_COUNT (100000 in the source),
\* scaled down so that both flush triggers are reached
MAX_BATCH_SIZE == 2
MAX_CYCLE_COUNT == 1
\* number of signals delivered in one run once the analyser exists
MaxSignals == 2
\* width in bits of the model's unsigned long long and of its int
WordBits == 24
IntBits == 12
\* the budgets examined are the multiples of BudgetStep up to
\* MaxBudgetSteps * BudgetStep bytes
BudgetStep == 1000
MaxBudgetSteps == 300
\* SetBufferSize is called with sizes up to MaxStartHalfMiB half MiB
MaxStartHalfMiB == 24

(***************************************************************************)
(* Program constants.                                                      *)
(***************************************************************************)
\* PerformWithRetries(query_func, 3, 1000)
max_retries == 3

\* enum ReturnCodes
SUCCESS == 0
FAILURE == 1
ARGUMENT_HELP == 2
ARGUMENT_CHECK_FAILURE == 3
NETWORK_ANALYSER_CREATION_FAILURE == 4
MESSAGE_PUBLISHER_CREATION_FAILURE == 5

\* ValidateAndSetOptions
DEFAULT_NUMBER_OF_THREADS == 5

\* sizeof of the three queue element types (x86-64, libstdc++): an
\* unordered_map; a pcap_pkthdr, a size_t, 750 bytes and a pointer; a vector
\* and an int
SizeofValidatedDomains == 56
SizeofDetectorPacket == 792
SizeofDNSPacketInfo == 32

\* bsoncxx::to_string(doc["element"].type()) for a string element
TypeTag == "string"

\* Queried names.  TypeTag is a legal (single-label) DNS name too.
Domain == {"a.com", TypeTag}

(***************************************************************************)
(* Frames the interface can deliver, described by what pcpp parses out of  *)
(* them: no DNS layer, a DNS query (QR = 0), or a DNS response (QR = 1)    *)
(* with its questions-section names and header response code (0 NOERROR,   *)
(* 3 NXDOMAIN).                                                            *)
(***************************************************************************)
Frames ==
    { [kind |-> "malformed", names |-> <<>>, rcode |-> 0],
      [kind |-> "query", names |-> <<"a.com">>, rcode |-> 0],
      [kind |-> "response", names |-> <<>>, rcode |-> 0],
      [kind |-> "response", names |-> <<"a.com">>, rcode |-> 0],
      [kind |-> "response", names |-> <<TypeTag>>, rcode |-> 0],
      [kind |-> "response", names |-> <<"a.com", TypeTag>>, rcode |-> 3] }

(***************************************************************************)
(* Maps as sets of <<key, value>> pairs.                                   *)
(***************************************************************************)
Keys(m) == {p[1] : p \in m}

\* m[k] = v with insert-only semantics (std::map::insert / emplace)
MapAssign_KeepFirst(m, k, v) ==
    IF k \in Keys(m) THEN m ELSE m \cup {<<k, v>>}

\* m[k] = v  (operator[] then assignment: insert or overwrite)
MapAssign(m, k, v) == {p \in m : p[1] # k} \cup {<<k, v>>}

(***************************************************************************)
(* MPMCQueueWrapper                                                        *)
(***************************************************************************)
\* emplace that never waits for a free slot
HasSpace_Unbounded(queue, size) == TRUE

\* emplace() returns only once a slot is free: it can complete iff the
\* queue holds fewer than `size` elements
HasSpace(queue, size) == Len(queue) < size

(***************************************************************************)
(* Filter                                                                  *)
(***************************************************************************)
\* ProcessDnsPacket that emits a record for every packet with a DNS layer
EmitsRecord_AnyDns(custom_packet) == custom_packet.kind # "malformed"

\* ProcessDnsPacket reaches dns_info_queue_->emplace iff the packet has a
\* DNS layer and the header's queryOrResponse is not kQuery
EmitsRecord(custom_packet) ==
    /\ custom_packet.kind # "malformed"
    /\ custom_packet.kind # "query"

\* DNSPacketInfo that keeps only the first question
MakeDnsPacketInfo_FirstOnly(custom_packet) ==
    [domain_names |-> IF custom_packet.names = <<>> THEN <<>>
                      ELSE <<Head(custom_packet.names)>>,
     response_code |-> custom_packet.rcode]

\* DNSPacketInfo(domain_names, kResponseCode): every question name in
\* order, and the header's response code
MakeDnsPacketInfo(custom_packet) ==
    [domain_names |-> custom_packet.names,
     response_code |-> custom_packet.rcode]

(***************************************************************************)
(* DomainValidator                                                         *)
(***************************************************************************)
RECURSIVE AssignNames(_, _, _)
AssignNames(names, code, pairs) ==
    IF names = <<>> THEN pairs
    ELSE AssignNames(Tail(names), code, MapAssign(pairs, Head(names), code))

\* for each name: domain_return_code_pairs[name] = response_code; cycle_count++
ProcessPacketInfo(packet_info, domain_return_code_pairs, cycle) ==
    [pairs |-> AssignNames(packet_info.domain_names, packet_info.response_code,
                           domain_return_code_pairs),
     cycle |-> cycle + Len(packet_info.domain_names)]

\* flush trigger with the two comparisons exchanged
ShouldProcessBatch_Swapped(current_batch_size, cycle, max_batch_size, max_cycle_count) ==
    current_batch_size > max_batch_size \/ cycle >= max_cycle_count

\* flush trigger that tests the batch size only
ShouldProcessBatch_BatchOnly(current_batch_size, cycle, max_batch_size, max_cycle_count) ==
    current_batch_size >= max_batch_size

ShouldProcessBatch(current_batch_size, cycle, max_batch_size, max_cycle_count) ==
    current_batch_size >= max_batch_size \/ cycle > max_cycle_count

\* erase every key the result list names, whatever it maps it to
RemoveListedDomains_AnyResult(domain_return_code_pairs, result_list) ==
    {p \in domain_return_code_pairs : p[1] \notin Keys(result_list)}

\* erase every key the result list maps to true
RemoveListedDomains(domain_return_code_pairs, result_list) ==
    {p \in domain_return_code_pairs : <<p[1], TRUE>> \notin result_list}

(***************************************************************************)
(* MongoDbDatabase                                                         *)
(***************************************************************************)
\* query_func of CheckInList: every queried element starts as false; for
\* each document the cursor returns, the key written is the string of the
\* element's BSON type, not the element's value
QueryFunc(elements, hits) ==
    LET init == {<<e, FALSE>> : e \in elements}
    IN  IF hits = {} THEN init ELSE MapAssign(init, TypeTag, TRUE)

\* HandleBlacklistHit: the document inserted into "Results" (its timestamp,
\* the current time in seconds, is left out)
HandleBlacklistHit(element) == [element |-> element]

\* How one run of query_func can end: it returns ("ok"), collection.find
\* throws mongocxx::exception ("find_throws"), or, for the blacklist, the
\* insert_one of HandleBlacklistHit for the at-th returned document throws
\* mongocxx::exception ("insert_throws")
AttemptOutcomes(list_name, hits) ==
    {[kind |-> "ok", at |-> 0], [kind |-> "find_throws", at |-> 0]}
        \cup (IF list_name = "Blacklist"
              THEN {[kind |-> "insert_throws", at |-> k] : k \in 1..Cardinality(hits)}
              ELSE {})

\* the loop over the cursor: documents handled by HandleBlacklistHit before
\* the run of query_func ended; the element passed is the type string
WrittenBy(list_name, hits, outcome) ==
    LET handled == IF list_name # "Blacklist" THEN 0
                   ELSE IF outcome.kind = "ok" THEN Cardinality(hits)
                   ELSE IF outcome.kind = "insert_throws" THEN outcome.at - 1
                   ELSE 0
    IN  [k \in 1..handled |-> HandleBlacklistHit(TypeTag)]

\* a failed attempt is always retried
RetryAgain_Always(attempt) == TRUE

\* if (attempt < max_retries - 1): sleep and retry, else rethrow
RetryAgain(attempt) == attempt < max_retries - 1

\* PerformWithRetries: the for loop from `attempt` on.  outcomes[k] is how
\* the k-th run of query_func would end.  The result says how many runs
\* were made, how the call ended ("ok": returned the run's result,
\* "rethrow": rethrew the exception of run `error`, "runtime_error": fell
\* out of the loop) and what the runs wrote to "Results".
RECURSIVE PerformWithRetries(_, _, _, _, _)
PerformWithRetries(list_name, hits, outcomes, attempt, written) ==
    IF ~(attempt < max_retries)
    THEN [attempts |-> attempt, status |-> "runtime_error", error |-> 0,
          written |-> written]
    ELSE LET outcome == outcomes[attempt + 1]
             w == written \o WrittenBy(list_name, hits, outcome)
         IN  IF outcome.kind = "ok"
             THEN [attempts |-> attempt + 1, status |-> "ok", error |-> 0,
                   written |-> w]
             ELSE IF RetryAgain(attempt)
             THEN PerformWithRetries(list_name, hits, outcomes, attempt + 1, w)
             ELSE [attempts |-> attempt + 1, status |-> "rethrow",
                   error |-> attempt + 1, written |-> w]

\* CheckInList: PerformWithRetries(query_func, 3, 1000)
CheckInList(list_name, hits, outcomes) ==
    PerformWithRetries(list_name, hits, outcomes, 0, <<>>)

\* CheckInBlacklist / CheckInWhitelist caught an exception of CheckInList
Exhausted(call) == call.status # "ok"

\* CheckInBlacklist / CheckInWhitelist: the catch block returns an empty map
CheckResult(elements, hits, call) ==
    IF Exhausted(call) THEN {} ELSE QueryFunc(elements, hits)

\* index of the first run of query_func that would return, 0 if none
FirstOk(outcomes) ==
    IF \E k \in 1..max_retries : outcomes[k].kind = "ok"
    THEN CHOOSE k \in 1..max_retries :
            /\ outcomes[k].kind = "ok"
            /\ \A j \in 1..(k - 1) : outcomes[j].kind # "ok"
    ELSE 0

\* One CheckInList call: what PerformWithRetries did (attempts, status,
\* error, written), with the history of what it was given: the list, the
\* queried names (elements), the names the store holds a document for
\* (hits), the first run that would return (first_ok) and the kinds of the
\* runs that throw before it (failed_kinds).
StoreCall(list_name, elements, hits, outcomes) ==
    LET r == CheckInList(list_name, hits, outcomes)
        first_ok == FirstOk(outcomes)
        failing == IF first_ok = 0 THEN 1..max_retries ELSE 1..(first_ok - 1)
    IN  [list_name |-> list_name,
         elements |-> elements,
         hits |-> hits,
         first_ok |-> first_ok,
         failed_kinds |-> {outcomes[k].kind : k \in failing},
         attempts |-> r.attempts,
         status |-> r.status,
         error |-> r.error,
         written |-> r.written]

NoCall ==
    [list_name |-> "none", elements |-> {}, hits |-> {}, first_ok |-> 0, failed_kinds |-> {},
     attempts |-> 0, status |-> "none", error |-> 0, written |-> <<>>]

\* the new element goes to the front of the queue
Emplace_AtFront(queue, element) == <<element>> \o queue

\* MPMCQueueWrapper::emplace: the element joins the queue behind those
\* already in it, which try_pop takes from the front
Emplace(queue, element) == Append(queue, element)

(***************************************************************************)
(* Publisher                                                               *)
(***************************************************************************)
\* nlohmann::json values: null, a number, or an object (a std::map from key
\* to value, here a set of <<key, value>> pairs)
JNull == [type |-> "null", members |-> {}, value |-> 0]

JNumber(n) == [type |-> "number", members |-> {}, value |-> n]

JObject(members) == [type |-> "object", members |-> members, value |-> 0]

\* the value a failed parse stands for
JError == [type |-> "error", members |-> {}, value |-> 0]

\* every name is written with response code 0
ToJson_DropCodes(domain_return_code_pairs) ==
    IF domain_return_code_pairs = {}
    THEN JNull
    ELSE JObject({<<"domains",
                    JObject({<<p[1], JNumber(0)>> : p \in domain_return_code_pairs})>>})

\* nlohmann::json starts as null; output_json["domains"][k] = v turns it
\* into an object with the member "domains" on the first pair
ToJson(domain_return_code_pairs) ==
    IF domain_return_code_pairs = {}
    THEN JNull
    ELSE JObject({<<"domains",
                    JObject({<<p[1], JNumber(p[2])>> : p \in domain_return_code_pairs})>>})

\* the text of a message is a sequence of tokens
Tok(kind, text) == [kind |-> kind, text |-> text]

\* std::map iterates its keys in ascending order
KeyOrder == <<"a.com", "domains", "string">>

\* the response codes a DNS header can carry
ResponseCodes == 0..15

RECURSIVE Dump(_)
RECURSIVE DumpMembers(_, _, _)
\* json::dump(4): a literal, a decimal number, or the members between
\* braces, one per line
Dump(json) ==
    IF json.type = "null" THEN <<Tok("literal", "null")>>
    ELSE IF json.type = "number" THEN <<Tok("number", ToString(json.value))>>
    ELSE IF json.members = {} THEN <<Tok("punct", "{"), Tok("punct", "}")>>
    ELSE <<Tok("punct", "{"), Tok("ws", "\n")>>
         \o DumpMembers(json.members, KeyOrder, TRUE)
         \o <<Tok("ws", "\n"), Tok("punct", "}")>>

DumpMembers(members, keys, first) ==
    IF keys = <<>> THEN <<>>
    ELSE IF \E m \in members : m[1] = Head(keys)
         THEN LET m == CHOOSE m \in members : m[1] = Head(keys)
              IN  (IF first THEN <<>> ELSE <<Tok("punct", ","), Tok("ws", "\n")>>)
                  \o <<Tok("string", m[1]), Tok("punct", ":"), Tok("ws", " ")>>
                  \o Dump(m[2])
                  \o DumpMembers(members, Tail(keys), FALSE)
         ELSE DumpMembers(members, Tail(keys), first)

ParseFail == [ok |-> FALSE, value |-> JError, next |-> 0]

RECURSIVE ParseValue(_, _)
RECURSIVE ParseMembers(_, _, _)
\* json::parse on the tokens t from position i: the value read and the
\* position after it
ParseValue(t, i) ==
    IF i > Len(t) THEN ParseFail
    ELSE IF t[i] = Tok("literal", "null")
         THEN [ok |-> TRUE, value |-> JNull, next |-> i + 1]
    ELSE IF t[i].kind = "number"
         THEN IF \E n \in ResponseCodes : ToString(n) = t[i].text
              THEN [ok |-> TRUE,
                    value |-> JNumber(CHOOSE n \in ResponseCodes : ToString(n) = t[i].text),
                    next |-> i + 1]
              ELSE ParseFail
    ELSE IF t[i] = Tok("punct", "{")
         THEN IF i + 1 <= Len(t) /\ t[i + 1] = Tok("punct", "}")
              THEN [ok |-> TRUE, value |-> JObject({}), next |-> i + 2]
              ELSE ParseMembers(t, i + 1, {})
    ELSE ParseFail

ParseMembers(t, i, members) ==
    IF i + 1 > Len(t) \/ t[i].kind # "string" \/ t[i + 1] # Tok("punct", ":")
    THEN ParseFail
    ELSE LET v == ParseValue(t, i + 2)
             read == members \cup {<<t[i].text, v.value>>}
         IN  IF ~v.ok \/ v.next > Len(t) THEN ParseFail
             ELSE IF t[v.next] = Tok("punct", ",") THEN ParseMembers(t, v.next + 1, read)
             ELSE IF t[v.next] = Tok("punct", "}")
                  THEN [ok |-> TRUE, value |-> JObject(read), next |-> v.next + 1]
             ELSE ParseFail

IsNotWhitespace(token) == token.kind # "ws"

\* the JSON value a message text parses to: whitespace is skipped and the
\* whole text must be one value
ParseJson(message) ==
    LET t == SelectSeq(message, IsNotWhitespace)
        r == ParseValue(t, 1)
    IN  IF r.ok /\ r.next = Len(t) + 1 THEN r.value ELSE JError

\* a failed publish stops the pipeline
AfterPublish_FailStops(status, token) == token \/ status = "failed"

\* PublishMessage discards the int amqp_basic_publish returns and Process
\* goes on: cancellation_token is what it was
AfterPublish(status, token) == token

(***************************************************************************)
(* Arguments::CalculateSizes                                               *)
(***************************************************************************)
\* unsigned long long arithmetic is modulo 2^WordBits
ULLONG_MODULUS == 2 ^ WordBits

\* std::numeric_limits<int>::max() of an int of IntBits bits
INT_MAX == 2 ^ (IntBits - 1) - 1

\* the value an unsigned long long expression has: reduced modulo the width
ToUnsigned(x) == x % ULLONG_MODULUS

\* static_cast<int> of an unsigned value: reduced modulo the int's width,
\* the upper half of the range being negative
ToInt(x) ==
    LET low == x % (2 ^ IntBits)
    IN  IF low > INT_MAX THEN low - 2 ^ IntBits ELSE low

\* an int stored in a size_t member: a negative value wraps
ToSizeT(x) == x % ULLONG_MODULUS

Min(a, b) == IF a <= b THEN a ELSE b

\* the memory budgets passed to CalculateSizes
Budgets == {k * BudgetStep : k \in 0..MaxBudgetSteps}

\* The four size members CalculateSizes sets.  The double product
\* 35.0 / 100.0 * remaining_value is taken as the floor of 35 * r / 100.
CalculateSizes(value) ==
    LET packet_buffer_size_alloc == Min(ToUnsigned(value * 65) \div 100, INT_MAX)
        publisher_queue_memory == 1000 * SizeofValidatedDomains
        remaining_value ==
            ToUnsigned(value - packet_buffer_size_alloc - publisher_queue_memory)
        packet_queue_size_alloc == (35 * remaining_value) \div 100
        dns_info_queue_size_alloc == remaining_value - packet_queue_size_alloc
    IN  [value |-> value,
         packet_buffer_size_ |-> ToInt(packet_buffer_size_alloc),
         packet_queue_size_ |->
             ToSizeT(ToInt(packet_queue_size_alloc \div SizeofDetectorPacket)),
         dns_info_queue_size_ |->
             ToSizeT(ToInt(dns_info_queue_size_alloc \div SizeofDNSPacketInfo)),
         publisher_queue_size_ |-> 1000]

\* the size members before CalculateSizes has run
NoSizes ==
    [value |-> 0, packet_buffer_size_ |-> 0, packet_queue_size_ |-> 0,
     dns_info_queue_size_ |-> 0, publisher_queue_size_ |-> 0]

(***************************************************************************)
(* NetworkAnalyser::SetBufferSize                                          *)
(***************************************************************************)
MIN_BUFFER_SIZE == 1024 * 1024
DECREMENT_SIZE == 1024 * 1024 * 5


\* the sizes SetBufferSize is called with: the half MiB multiples and their
\* neighbours
StartSizes ==
    {m * (MIN_BUFFER_SIZE \div 2) + d : m \in 0..MaxStartHalfMiB, d \in {0, 1}}
        \cup {m * (MIN_BUFFER_SIZE \div 2) - 1 : m \in 1..MaxStartHalfMiB}

\* the loop goes on for any positive size
KeepsTrying_AnyPositive(buffer_size) == buffer_size > 0

\* while (buffer_size >= MIN_BUFFER_SIZE)
KeepsTrying(buffer_size) == buffer_size >= MIN_BUFFER_SIZE

\* no SetBufferSize call yet.  start, requested and accepted are history:
\* the argument, the sizes passed to pcap_set_buffer_size and its answers.
NoBufferCall ==
    [status |-> "none", start |-> 0, buffer_size |-> 0, requested |-> <<>>,
     accepted |-> <<>>, code |-> 0]
(***************************************************************************)
(* Arguments::Parse.  A string value is the sequence of its characters.    *)
(* An option of the command line or a key of appsettings.json is given     *)
(* with a value, or not given.                                             *)
(***************************************************************************)
Given(value) == [given |-> TRUE, value |-> value]
NoText == [given |-> FALSE, value |-> <<>>]
NoNumber == [given |-> FALSE, value |-> 0]

\* SetOption<T> up to the TrimQuotes call: result.count(key), else
\* appsettings.contains(key), else throw if required; value is the member
\* assigned to and source (history) where its value came from
SetOption(cli, file, required, value) ==
    IF cli.given THEN [thrown |-> FALSE, value |-> cli.value, source |-> "cli"]
    ELSE IF file.given THEN [thrown |-> FALSE, value |-> file.value, source |-> "file"]
    ELSE [thrown |-> required, value |-> value, source |-> "none"]

\* input.length() >= 2 && (front == '"' && back == '"')
\*     || (front == '\'' && back == '\'') ? input.substr(1, length - 2) : input
\* (front() of an empty string read as the terminator)
TrimQuotes(input) ==
    IF input = <<>> THEN input
    ELSE IF \/ (Len(input) >= 2 /\ Head(input) = "\"" /\ input[Len(input)] = "\"")
            \/ (Head(input) = "'" /\ input[Len(input)] = "'")
         THEN SubSeq(input, 2, Len(input) - 1)
         ELSE input

\* SetOption<std::string>: the value set is trimmed
SetStringOption(cli, file, required, value) ==
    LET set == SetOption(cli, file, required, value)
    IN  IF set.thrown THEN set ELSE [set EXCEPT !.value = TrimQuotes(@)]

\* number_of_threads_ after the check against DEFAULT_NUMBER_OF_THREADS
NumberOfThreads(threads, hardware_concurrency) ==
    IF threads < DEFAULT_NUMBER_OF_THREADS
    THEN IF hardware_concurrency = 0
         THEN DEFAULT_NUMBER_OF_THREADS
         ELSE hardware_concurrency
    ELSE threads

NoSettings ==
    [interface |-> <<>>, size |-> 0, sizes |-> NoSizes, database |-> <<>>,
     rabbitmq |-> <<>>, queue |-> <<>>, threads |-> 0,
     max_batch_size |-> 0, max_cycle_count |-> 0]

NoSources ==
    [interface |-> "none", size |-> "none", database |-> "none", rabbitmq |-> "none",
     queue |-> "none", threads |-> "none", max_batch_size |-> "none",
     max_cycle_count |-> "none"]

\* Parse has thrown ArgumentException with this code
ParseThrown(code) ==
    [status |-> "thrown", code |-> code, settings |-> NoSettings, sources |-> NoSources]

\* ValidateAndSetOptions: the members set when it returns, or the exception
\* of --help or of the first required option found in neither source.
\* input.initial holds the members SetOption leaves alone when an optional
\* value is in neither source.
ValidateAndSetOptions(input) ==
    LET cli == input.cli
        file == input.file
        interface == SetStringOption(cli.interface, file.interface, TRUE, <<>>)
        size == SetOption(cli.size, file.size, TRUE, 0)
        database == SetStringOption(cli.database, file.database, TRUE, <<>>)
        rabbitmq == SetStringOption(cli.rabbitmq, file.rabbitmq, TRUE, <<>>)
        queue == SetStringOption(cli.queue, file.queue, TRUE, <<>>)
        threads == SetOption(cli.threads, file.threads, FALSE, input.initial.threads)
        batch == SetOption(cli.max_batch_size, file.max_batch_size, FALSE,
                           input.initial.max_batch_size)
        cycle == SetOption(cli.max_cycle_count, file.max_cycle_count, FALSE,
                           input.initial.max_cycle_count)
        zero == batch.value = 0 \/ cycle.value = 0
    IN  IF input.help THEN ParseThrown(ARGUMENT_HELP)
        ELSE IF \/ interface.thrown \/ size.thrown \/ database.thrown
                \/ rabbitmq.thrown \/ queue.thrown
             THEN ParseThrown(ARGUMENT_CHECK_FAILURE)
        ELSE [status |-> "ok",
              code |-> SUCCESS,
              settings |->
                  [interface |-> interface.value,
                   size |-> size.value,
                   sizes |-> CalculateSizes(size.value),
                   database |-> database.value,
                   rabbitmq |-> rabbitmq.value,
                   queue |-> queue.value,
                   threads |-> NumberOfThreads(threads.value,
                                               input.hardware_concurrency),
                   max_batch_size |-> IF zero THEN 100000 ELSE batch.value,
                   max_cycle_count |-> IF zero THEN 50000 ELSE cycle.value],
              sources |->
                  [interface |-> interface.source, size |-> size.source,
                   database |-> database.source, rabbitmq |-> rabbitmq.source,
                   queue |-> queue.source, threads |-> threads.source,
                   max_batch_size |-> batch.source,
                   max_cycle_count |-> cycle.source]]

\* Parse: an appsettings.json that is not JSON or a command line cxxopts
\* rejects (input.malformed) ends in ARGUMENT_CHECK_FAILURE before the
\* options are looked at
Parse(input) ==
    IF input.malformed THEN ParseThrown(ARGUMENT_CHECK_FAILURE)
    ELSE ValidateAndSetOptions(input)

\* values of the options in the two sources
CliText == {NoText, Given(<<"c">>)}
CliQuotedText == {NoText, Given(<<"c">>), Given(<<"\"", "c", "\"">>)}
FileText == {NoText, Given(<<"f">>)}
CliSize == {NoNumber, Given(200000)}
FileSize == {NoNumber, Given(100000)}
CliThreads == {NoNumber, Given(2), Given(5), Given(8)}
FileThreads == {NoNumber, Given(6)}
CliBatch == {NoNumber, Given(0), Given(7)}
CliCycle == {NoNumber, Given(0), Given(9)}

\* the members' values before Parse, whatever they are
InitialMembers ==
    { [threads |-> 0, max_batch_size |-> 0, max_cycle_count |-> 0],
      [threads |-> 6, max_batch_size |-> 4, max_cycle_count |-> 3] }

\* std::thread::hardware_concurrency()
HardwareConcurrency == {0, 2, 8}

NoOptions ==
    [interface |-> NoText, size |-> NoNumber, database |-> NoText, rabbitmq |-> NoText,
     queue |-> NoText, threads |-> NoNumber, max_batch_size |-> NoNumber,
     max_cycle_count |-> NoNumber]

AllFromCli ==
    [NoOptions EXCEPT !.interface = Given(<<"c">>), !.size = Given(200000),
                      !.database = Given(<<"c">>), !.rabbitmq = Given(<<"c">>),
                      !.queue = Given(<<"c">>)]

\* the required options in every combination of the two sources
RequiredInputs ==
    { [malformed |-> FALSE, help |-> help,
       cli |-> [NoOptions EXCEPT !.interface = ci, !.size = cs, !.database = cd,
                                 !.rabbitmq = cr, !.queue = cq],
       file |-> [NoOptions EXCEPT !.interface = fi, !.size = fs, !.database = fd,
                                  !.rabbitmq = fr, !.queue = fq],
       hardware_concurrency |-> 8,
       initial |-> [threads |-> 0, max_batch_size |-> 0, max_cycle_count |-> 0]] :
         help \in BOOLEAN,
         ci \in CliQuotedText, cs \in CliSize, cd \in CliText, cr \in CliText,
         cq \in CliText,
         fi \in FileText, fs \in FileSize, fd \in FileText, fr \in FileText,
         fq \in FileText }

\* the optional options, the required ones all on the command line
OptionalInputs ==
    { [malformed |-> malformed, help |-> FALSE,
       cli |-> [AllFromCli EXCEPT !.threads = ct, !.max_batch_size = cb,
                                  !.max_cycle_count = cc],
       file |-> [NoOptions EXCEPT !.threads = ft],
       hardware_concurrency |-> hc,
       initial |-> initial] :
         malformed \in BOOLEAN,
         ct \in CliThreads, ft \in FileThreads, cb \in CliBatch, cc \in CliCycle,
         hc \in HardwareConcurrency, initial \in InitialMembers }

ParseInputs == RequiredInputs \cup OptionalInputs

\* Parse not yet called.  input is history: what Parse was called with.
NoParse ==
    [input |-> [malformed |-> FALSE, help |-> FALSE, cli |-> NoOptions,
                file |-> NoOptions, hardware_concurrency |-> 0,
                initial |-> [threads |-> 0, max_batch_size |-> 0,
                             max_cycle_count |-> 0]],
     status |-> "none", code |-> SUCCESS, settings |-> NoSettings,
     sources |-> NoSources]

(***************************************************************************)
(* main: Detector's constructor, then Run                                  *)
(***************************************************************************)
\* the exception classes derived from DetectorException
DetectorExceptions ==
    {"ArgumentException", "NetworkAnalyserException", "MessagePublisherException"}

\* main's two catch clauses: e.GetCode() for a DetectorException, FAILURE
\* for any other std::exception
ExitCodeOf(exception, code) ==
    IF exception \in DetectorExceptions THEN code ELSE FAILURE

\* the steps of NetworkAnalyser's constructor, each of which throws
\* NetworkAnalyserException when its pcap call fails
AnalyserSteps ==
    {"CreateHandle", "SetBufferSize", "SetSnaplen", "SetPromiscuousMode",
     "SetTimeout", "ActivateHandle", "SetImmediateMode", "SetBpfFilter compile",
     "SetBpfFilter install"}

\* the steps of MongoDbDatabase's constructor: mongocxx::uri throws for a
\* bad connection string, CheckConnection throws std::runtime_error
DatabaseSteps == {"uri", "CheckConnection"}

\* the steps of MessagePublisher's constructor that throw, with the
\* exception each throws
PublisherThrows ==
    {<<"ParseConnectionString", "std::invalid_argument">>,
     <<"amqp_tcp_socket_new", "std::runtime_error">>,
     <<"amqp_socket_open", "std::runtime_error">>}

\* the steps of MessagePublisher::Initialize whose result is not looked at
PublisherIgnored == {"amqp_login", "amqp_channel_open"}

NoThreads == [capture |-> 0, filter |-> 0, validator |-> 0, publisher |-> 0]

\* the command lines main is started with: the required options given,
\* or --help, or nothing at all
StartupInputs ==
    {i \in OptionalInputs :
        ~i.cli.max_batch_size.given /\ ~i.cli.max_cycle_count.given}
    \cup {i \in RequiredInputs :
            /\ i.file = NoOptions
            /\ i.cli \in {NoOptions, AllFromCli}
            /\ i.help \/ i.cli = NoOptions}

\* main has been entered.  input, failed and threads are history: the
\* input of Parse, the steps that have failed, the threads Run has started.
NotStarted ==
    [pc |-> "parse", input |-> NoParse.input, total_threads |-> 0, failed |-> {},
     exception |-> "none", exit_code |-> -1, threads |-> NoThreads]

\* an exception leaves InitializeComponents and the constructor; main
\* returns from its catch clause
Thrown(state, step, exception, code) ==
    [state EXCEPT !.pc = "exited",
                  !.failed = @ \cup {step},
                  !.exception = exception,
                  !.exit_code = ExitCodeOf(exception, code)]


(***************************************************************************)
(* DetectorPacket: hybrid storage                                          *)
(***************************************************************************)
\* DetectorPacket objects and heap buffers in the model
MaxPackets == 3
MaxBuffers == 2

\* DetectorPacket::MAX_STATIC_SIZE
MAX_STATIC_SIZE == 750

PacketIds == 1..MaxPackets

\* addresses operator new[] can return; 0 is nullptr
Buffers == 1..MaxBuffers
nullptr == 0

\* hdr.len of the frames handed to the constructor
PacketLengths == {MAX_STATIC_SIZE, MAX_STATIC_SIZE + 1}

\* the bytes packet_data points to, by content
PacketData == {"p", "q"}

\* bytes nobody wrote: an uninitialised static_data, a freed buffer
Junk == "junk"

\* storage not holding an object.  payload and moved_from are history: the
\* bytes the object was given, and whether it was last the source of a move.
NoDetectorPacket ==
    [alive |-> FALSE, data_size |-> 0, static_data |-> Junk,
     dynamic_data |-> nullptr, payload |-> Junk, moved_from |-> FALSE]

\* the heap: each buffer allocated or free, with its bytes.  freed_twice is
\* history: delete[] was called on a buffer that was not allocated.
EmptyHeap ==
    [cells |-> [a \in Buffers |-> [allocated |-> FALSE, bytes |-> Junk]],
     freed_twice |-> FALSE]

\* the addresses new u_char[data_size] can return
FreeBuffers(h) == {a \in Buffers : ~h.cells[a].allocated}

\* new u_char[data_size] returning address a, then memcpy of bytes into it
NewBuffer(h, a, bytes) ==
    [h EXCEPT !.cells[a] = [allocated |-> TRUE, bytes |-> bytes]]

\* delete[] pointer: nothing for nullptr, frees an allocated buffer
DeleteBuffer(h, pointer) ==
    IF pointer = nullptr THEN h
    ELSE IF h.cells[pointer].allocated
         THEN [h EXCEPT !.cells[pointer] = [allocated |-> FALSE, bytes |-> Junk]]
         ELSE [h EXCEPT !.freed_twice = TRUE]

\* DetectorPacket::getData(): the storage it returns
GetData(packet) ==
    IF packet.data_size <= MAX_STATIC_SIZE
    THEN <<"static_data", nullptr>>
    ELSE <<"dynamic_data", packet.dynamic_data>>

\* the bytes a reader of getData() finds
ReadData(packet, h) ==
    LET data == GetData(packet)
    IN  IF data[1] = "static_data" THEN packet.static_data
        ELSE IF data[2] = nullptr THEN Junk
        ELSE h.cells[data[2]].bytes

(***************************************************************************)
(* Arguments::TrimQuotes on its own                                        *)
(***************************************************************************)
\* longest string handed to TrimQuotes
MaxTextLen == 4

\* the characters of those strings: the two quotes and a letter
TextChars == {"\"", "'", "c"}

TrimInputs == UNION { [1..n -> TextChars] : n \in 0..MaxTextLen }

\* front() and back() of an empty string are undefined: a build with
\* library assertions aborts, one without reads the terminator and goes on
FrontOfEmpty == {"aborted", "terminator"}

\* TrimQuotes not yet called.  input is history.
NoTrim == [status |-> "none", input |-> <<>>, output |-> <<>>]

(***************************************************************************)
(* NetworkAnalyser: the option setters and the pcap handle                 *)
(***************************************************************************)
\* pcap.h: the operation can't be performed on already activated captures
PCAP_ERROR_ACTIVATED == -4

\* pcap.h: generic error code
PCAP_ERROR == -1

\* the values the setters pass
PCAP_SNAPLEN == 65535
PROMISC_MODE == 1
TIMEOUT_IN_MS == 1

\* the sizes SetBufferSize is called with here: below the minimum, one
\* request, three requests
HandleBufferSizes == {MIN_BUFFER_SIZE \div 2, DECREMENT_SIZE, 2 * DECREMENT_SIZE + MIN_BUFFER_SIZE}

\* the setters and ActivateHandle
OptionSetters == {"SetBufferSize", "SetSnaplen", "SetPromiscuousMode", "SetTimeout"}
BeforeActivation == OptionSetters \cup {"ActivateHandle"}

\* pcap_t after pcap_create: the options stored in it, whether it is
\* activated and whether a filter is installed
CreatedHandle ==
    [activated |-> FALSE, buffer_size |-> 0, snaplen |-> 0, promisc |-> 0,
     timeout |-> 0, filter |-> FALSE]

\* pcap_set_buffer_size, pcap_set_snaplen, pcap_set_promisc, pcap_set_timeout:
\* refused on an activated handle, stored otherwise
PcapSet(pcap, option, value) ==
    IF pcap.activated
    THEN [result |-> PCAP_ERROR_ACTIVATED, pcap |-> pcap]
    ELSE [result |-> 0, pcap |-> [pcap EXCEPT ![option] = value]]

\* pcap_activate: refused on an activated handle; otherwise the device is
\* opened, opened with a warning (a positive result), or not opened
PcapActivate(pcap) ==
    IF pcap.activated
    THEN {[result |-> PCAP_ERROR_ACTIVATED, pcap |-> pcap]}
    ELSE {[result |-> 0, pcap |-> [pcap EXCEPT !.activated = TRUE]],
          [result |-> 1, pcap |-> [pcap EXCEPT !.activated = TRUE]],
          [result |-> PCAP_ERROR, pcap |-> pcap]}

\* pcap_compile of "port 53": needs an activated handle
PcapCompile(pcap) == IF pcap.activated THEN 0 ELSE PCAP_ERROR

\* pcap_setfilter on an activated handle, the kernel accepting the program
PcapSetFilter(pcap) == [result |-> 0, pcap |-> [pcap EXCEPT !.filter = TRUE]]

\* what a setter or ActivateHandle did: returned, or threw the exception
Returned == [thrown |-> FALSE, exception |-> "none", code |-> SUCCESS]
ThrownNetworkAnalyserException ==
    [thrown |-> TRUE, exception |-> "NetworkAnalyserException",
     code |-> NETWORK_ANALYSER_CREATION_FAILURE]

\* a setter that tests for the generic error code
RefusedAsActivated_GenericError(result) == result = PCAP_ERROR

\* SetSnaplen, SetPromiscuousMode, SetTimeout:
\* if (pcap_set_...(handle_, ...) == PCAP_ERROR_ACTIVATED) throw
RefusedAsActivated(result) == result = PCAP_ERROR_ACTIVATED

\* ActivateHandle: if (pcap_activate(handle_) != OK) throw
ActivateFailed(result) == result # 0

\* the sizes SetBufferSize requests when every request is refused
RequestedSizes(buffer_size) ==
    {size \in {buffer_size - k * DECREMENT_SIZE :
                   k \in 0..(buffer_size \div DECREMENT_SIZE)} : KeepsTrying(size)}

\* SetBufferSize: the first request that pcap_set_buffer_size answers with 0
\* ends the loop; `accepted` is that size, or 0 when every request is
\* refused and the loop ends in the throw
SetBufferSizeOn(pcap, buffer_size, accepted) ==
    IF accepted = 0
    THEN [outcome |-> ThrownNetworkAnalyserException, pcap |-> pcap]
    ELSE [outcome |-> Returned, pcap |-> PcapSet(pcap, "buffer_size", accepted).pcap]

\* the sizes pcap_set_buffer_size can accept: none on an activated handle
Acceptable(pcap, buffer_size) ==
    IF pcap.activated THEN {0} ELSE RequestedSizes(buffer_size) \cup {0}

\* SetSnaplen, SetPromiscuousMode, SetTimeout
SetOptionOn(pcap, option, value) ==
    LET set == PcapSet(pcap, option, value)
    IN  [outcome |-> IF RefusedAsActivated(set.result)
                     THEN ThrownNetworkAnalyserException ELSE Returned,
         pcap |-> set.pcap]

\* SetBpfFilter: pcap_compile, pcap_setfilter, pcap_freecode
SetBpfFilterOn(pcap) ==
    IF PcapCompile(pcap) = PCAP_ERROR
    THEN [outcome |-> ThrownNetworkAnalyserException, pcap |-> pcap]
    ELSE LET set == PcapSetFilter(pcap)
         IN  [outcome |-> IF set.result = PCAP_ERROR
                          THEN ThrownNetworkAnalyserException ELSE Returned,
              pcap |-> set.pcap]

\* the analyser after CreateHandle.  last, was_activated and refused are
\* history: the last member function called with its outcome, whether the
\* handle was activated when it was called, and the functions that have
\* thrown on the activated handle.
NewAnalyser ==
    [pcap |-> CreatedHandle, last |-> "none", outcome |-> Returned,
     was_activated |-> FALSE, refused |-> {}]

\* the analyser after a call of member function op
AfterCall(analyser, op, call) ==
    [pcap |-> call.pcap, last |-> op, outcome |-> call.outcome,
     was_activated |-> analyser.pcap.activated,
     refused |-> IF analyser.pcap.activated /\ call.outcome.thrown
                 THEN analyser.refused \cup {op} ELSE analyser.refused]

(***************************************************************************)
(* State                                                                   *)
(***************************************************************************)
VARIABLES
    cancellation_token,     \* std::atomic<bool> cancellation_token
    break_loop,             \* pcap handle's break flag, set by pcap_breakloop
    frames_seen,            \* number of frames delivered so far
    packet_queue,           \* Detector::packet_queue_
    dns_info_queue,         \* Detector::dns_info_queue_
    publisher_queue,        \* Detector::publisher_queue_
    main_pc,                \* position of Detector::Run
    capture_pc,             \* position of the capture thread
    capture_frame,          \* packet the blocked PacketHandler is holding
    filter_pc,              \* position of each filter thread
    filter_packet,          \* local `packet` of each ProcessPacket: the last one popped
    filter_info,            \* DNSPacketInfo each filter thread is emplacing
    validator_pc,           \* position of the validator thread
    domain_return_code_pairs, \* local of ProcessDomains
    cycle_count,            \* local of ProcessDomains
    result_blacklist_check, \* local of ProcessBatch
    result_whitelist_check, \* local of ProcessBatch
    publisher_pc,           \* position of the publisher thread
    published,              \* messages handed to PublishMessage, in order
    window,                 \* history: <<name, code>> assignments since the last flush
    flush_start,            \* history: domain_return_code_pairs when the flush began
    publish_failed,         \* history: some amqp_basic_publish call has failed
    global_analyser_ptr,    \* TRUE once global_analyser_ptr points to the analyser
    stop_capture_calls,     \* history: number of NetworkAnalyser::StopCapture calls
    store_call,             \* history: the last CheckInList call made on the database alone
    sizes,                  \* Arguments' size members after CalculateSizes, with its argument
    buffer_call,            \* NetworkAnalyser::SetBufferSize: its local buffer_size and the sizes requested
    parse_call,             \* Arguments::Parse: its inputs and the members it set
    startup,                \* main: position, failed steps, threads started, exit code
    packets,                \* DetectorPacket objects on their own: the members of each
    heap,                   \* the buffers those objects allocate with new[]
    trim_call,              \* Arguments::TrimQuotes: its argument and what it returned
    handle                  \* NetworkAnalyser on its own: its pcap handle and the last call on it

vars == <<cancellation_token, break_loop, frames_seen, packet_queue,
          dns_info_queue, publisher_queue, main_pc, capture_pc, capture_frame,
          filter_pc, filter_packet, filter_info, validator_pc, domain_return_code_pairs,
          cycle_count, result_blacklist_check, result_whitelist_check,
          publisher_pc, published, window, flush_start,
          publish_failed, global_analyser_ptr, stop_capture_calls, store_call,
          sizes, buffer_call, parse_call, startup, packets, heap, trim_call, handle>>

signal_vars == <<global_analyser_ptr, stop_capture_calls>>
startup_vars == <<sizes, buffer_call, parse_call, startup>>
object_vars == <<packets, heap>>
unit_vars == <<trim_call, handle>>
library_vars == <<object_vars, unit_vars>>
call_vars == <<store_call, startup_vars, library_vars>>
publish_vars == <<publish_failed>>

\* Detector::Run: filter_threads = total_threads > 3 ? total_threads - 3 : 1
FilterThreads(total_threads) == IF total_threads > 3 THEN total_threads - 3 ELSE 1

filter_threads == FilterThreads(number_of_threads_)

Filters == 1..filter_threads

NoPacket == [kind |-> "none", names |-> <<>>, rcode |-> 0]
NoInfo == [domain_names |-> <<>>, response_code |-> 0]

\* State after SetupSignalHandling in Detector::Detector: handler
\* installed, InitializeComponents not yet run, no thread started.
Init ==
    /\ cancellation_token = FALSE
    /\ break_loop = FALSE
    /\ frames_seen = 0
    /\ packet_queue = <<>>
    /\ dns_info_queue = <<>>
    /\ publisher_queue = <<>>
    /\ main_pc = "construct"
    /\ capture_pc = "idle"
    /\ capture_frame = NoPacket
    /\ filter_pc = [i \in Filters |-> "idle"]
    /\ filter_packet = [i \in Filters |-> NoPacket]
    /\ filter_info = [i \in Filters |-> NoInfo]
    /\ validator_pc = "idle"
    /\ domain_return_code_pairs = {}
    /\ cycle_count = 0
    /\ result_blacklist_check = {}
    /\ result_whitelist_check = {}
    /\ publisher_pc = "idle"
    /\ published = <<>>
    /\ window = <<>>
    /\ flush_start = {}
    /\ publish_failed = FALSE
    /\ global_analyser_ptr = FALSE
    /\ stop_capture_calls = 0
    /\ store_call = NoCall
    /\ sizes = NoSizes
    /\ buffer_call = NoBufferCall
    /\ parse_call = NoParse
    /\ startup = NotStarted
    /\ packets = [p \in PacketIds |-> NoDetectorPacket]
    /\ heap = EmptyHeap
    /\ trim_call = NoTrim
    /\ handle = NewAnalyser

(***************************************************************************)
(* Detector                                                                *)
(***************************************************************************)
\* InitializeComponents: logger, arguments, the three queues, the analyser
\* (global_analyser_ptr = analyser_.get()), then filter, database,
\* validator and publisher
InitializeComponents ==
    /\ main_pc = "construct"
    /\ main_pc' = "spawn"
    /\ global_analyser_ptr' = TRUE
    /\ UNCHANGED <<cancellation_token, break_loop, frames_seen, packet_queue,
                   dns_info_queue, publisher_queue, capture_pc, capture_frame,
                   filter_pc, filter_packet, filter_info, validator_pc,
                   domain_return_code_pairs, cycle_count,
                   result_blacklist_check, result_whitelist_check, publisher_pc,
                   published, window, flush_start, stop_capture_calls,
                   call_vars, publish_vars>>

\* SignalHandler: cancellation_token.store(true); StopCapture
\* (pcap_breakloop) only if global_analyser_ptr is set
SignalHandler ==
    /\ stop_capture_calls < MaxSignals
    /\ cancellation_token' = TRUE
    /\ IF global_analyser_ptr
       THEN /\ break_loop' = TRUE
            /\ stop_capture_calls' = stop_capture_calls + 1
       ELSE UNCHANGED <<break_loop, stop_capture_calls>>
    /\ UNCHANGED <<frames_seen, packet_queue, dns_info_queue, publisher_queue,
                   main_pc, capture_pc, capture_frame, filter_pc, filter_packet, filter_info,
                   validator_pc, domain_return_code_pairs, cycle_count,
                   result_blacklist_check, result_whitelist_check, publisher_pc,
                   published, window, flush_start, global_analyser_ptr, call_vars, publish_vars>>

\* Run: the four std::thread constructions
RunSpawn ==
    /\ main_pc = "spawn"
    /\ main_pc' = "join"
    /\ capture_pc' = "loop"
    /\ filter_pc' = [i \in Filters |-> "check"]
    /\ validator_pc' = "check"
    /\ publisher_pc' = "check"
    /\ UNCHANGED <<cancellation_token, break_loop, frames_seen, packet_queue,
                   dns_info_queue, publisher_queue, capture_frame, filter_packet, filter_info,
                   domain_return_code_pairs, cycle_count,
                   result_blacklist_check, result_whitelist_check, published, window, flush_start,
                   signal_vars, call_vars, publish_vars>>

\* Run: every join has returned
RunJoin ==
    /\ main_pc = "join"
    /\ capture_pc = "done"
    /\ \A i \in Filters : filter_pc[i] = "done"
    /\ validator_pc = "done"
    /\ publisher_pc = "done"
    /\ main_pc' = "returned"
    /\ UNCHANGED <<cancellation_token, break_loop, frames_seen, packet_queue,
                   dns_info_queue, publisher_queue, capture_pc, capture_frame,
                   filter_pc, filter_packet, filter_info, validator_pc,
                   domain_return_code_pairs, cycle_count,
                   result_blacklist_check, result_whitelist_check, publisher_pc,
                   published, window, flush_start,
                   signal_vars, call_vars, publish_vars>>

(***************************************************************************)
(* NetworkAnalyser                                                         *)
(***************************************************************************)
\* pcap_loop dispatches a frame to PacketHandler, which emplaces a
\* DetectorPacket; emplace returns at once when the queue has space and
\* otherwise leaves the handler waiting inside it
PacketHandler(frame) ==
    /\ capture_pc = "loop"
    /\ ~break_loop
    /\ frames_seen < MaxFrames
    /\ frames_seen' = frames_seen + 1
    /\ LET packet == frame
       IN  IF HasSpace(packet_queue, PacketQueueSize)
           THEN /\ packet_queue' = Append(packet_queue, packet)
                /\ UNCHANGED <<capture_pc, capture_frame>>
           ELSE /\ capture_pc' = "handler"
                /\ capture_frame' = packet
                /\ UNCHANGED packet_queue
    /\ UNCHANGED <<cancellation_token, break_loop, dns_info_queue,
                   publisher_queue, main_pc, filter_pc, filter_packet, filter_info,
                   validator_pc, domain_return_code_pairs, cycle_count,
                   result_blacklist_check, result_whitelist_check, publisher_pc,
                   published, window, flush_start,
                   signal_vars, call_vars, publish_vars>>

\* the emplace a PacketHandler was waiting in completes
PacketHandlerResume ==
    /\ capture_pc = "handler"
    /\ HasSpace(packet_queue, PacketQueueSize)
    /\ packet_queue' = Append(packet_queue, capture_frame)
    /\ capture_pc' = "loop"
    /\ capture_frame' = NoPacket
    /\ UNCHANGED <<cancellation_token, break_loop, frames_seen, dns_info_queue,
                   publisher_queue, main_pc, filter_pc, filter_packet, filter_info,
                   validator_pc, domain_return_code_pairs, cycle_count,
                   result_blacklist_check, result_whitelist_check, publisher_pc,
                   published, window, flush_start,
                   signal_vars, call_vars, publish_vars>>

\* pcap_loop sees the break flag between two frames and returns
StartCaptureReturn ==
    /\ capture_pc = "loop"
    /\ break_loop
    /\ capture_pc' = "done"
    /\ UNCHANGED <<cancellation_token, break_loop, frames_seen, packet_queue,
                   dns_info_queue, publisher_queue, main_pc, capture_frame,
                   filter_pc, filter_packet, filter_info, validator_pc,
                   domain_return_code_pairs, cycle_count,
                   result_blacklist_check, result_whitelist_check, publisher_pc,
                   published, window, flush_start,
                   signal_vars, call_vars, publish_vars>>

\* pcap_loop returns because reading from the interface failed
\* (PCAP_ERROR); StartCapture returns with it
StartCaptureError ==
    /\ capture_pc = "loop"
    /\ capture_pc' = "done"
    /\ UNCHANGED <<cancellation_token, break_loop, frames_seen, packet_queue,
                   dns_info_queue, publisher_queue, main_pc, capture_frame,
                   filter_pc, filter_packet, filter_info, validator_pc,
                   domain_return_code_pairs, cycle_count,
                   result_blacklist_check, result_whitelist_check, publisher_pc,
                   published, window, flush_start, signal_vars, call_vars, publish_vars>>

(***************************************************************************)
(* Filter::ProcessPacket                                                   *)
(***************************************************************************)
\* while (!cancellation_token.load())
FilterCheck(i) ==
    /\ filter_pc[i] = "check"
    /\ filter_pc' = [filter_pc EXCEPT ![i] =
                        IF cancellation_token THEN "done" ELSE "pop"]
    /\ UNCHANGED <<cancellation_token, break_loop, frames_seen, packet_queue,
                   dns_info_queue, publisher_queue, main_pc, capture_pc,
                   capture_frame, filter_packet, filter_info, validator_pc,
                   domain_return_code_pairs, cycle_count,
                   result_blacklist_check, result_whitelist_check, publisher_pc,
                   published, window, flush_start,
                   signal_vars, call_vars, publish_vars>>

\* try_pop succeeded; ProcessDnsPacket parses the packet and either returns
\* or goes on to dns_info_queue_->emplace
FilterPop(i) ==
    /\ filter_pc[i] = "pop"
    /\ packet_queue # <<>>
    /\ LET packet == Head(packet_queue)
       IN  /\ packet_queue' = Tail(packet_queue)
           /\ filter_packet' = [filter_packet EXCEPT ![i] = packet]
           /\ IF EmitsRecord(packet)
              THEN /\ filter_pc' = [filter_pc EXCEPT ![i] = "emplace"]
                   /\ filter_info' = [filter_info EXCEPT ![i] = MakeDnsPacketInfo(packet)]
              ELSE /\ filter_pc' = [filter_pc EXCEPT ![i] = "check"]
                   /\ UNCHANGED filter_info
    /\ UNCHANGED <<cancellation_token, break_loop, frames_seen, dns_info_queue,
                   publisher_queue, main_pc, capture_pc, capture_frame,
                   validator_pc, domain_return_code_pairs, cycle_count,
                   result_blacklist_check, result_whitelist_check, publisher_pc,
                   published, window, flush_start,
                   signal_vars, call_vars, publish_vars>>

\* try_pop failed: sleep 100 ms
FilterIdle(i) ==
    /\ filter_pc[i] = "pop"
    /\ packet_queue = <<>>
    /\ filter_pc' = [filter_pc EXCEPT ![i] = "check"]
    /\ UNCHANGED <<cancellation_token, break_loop, frames_seen, packet_queue,
                   dns_info_queue, publisher_queue, main_pc, capture_pc,
                   capture_frame, filter_packet, filter_info, validator_pc,
                   domain_return_code_pairs, cycle_count,
                   result_blacklist_check, result_whitelist_check, publisher_pc,
                   published, window, flush_start,
                   signal_vars, call_vars, publish_vars>>

\* dns_info_queue_->emplace(DNSPacketInfo(...)) completes
FilterEmplace(i) ==
    /\ filter_pc[i] = "emplace"
    /\ HasSpace(dns_info_queue, DNSInfoQueueSize)
    /\ dns_info_queue' = Append(dns_info_queue, filter_info[i])
    /\ filter_pc' = [filter_pc EXCEPT ![i] = "check"]
    /\ filter_info' = [filter_info EXCEPT ![i] = NoInfo]
    /\ UNCHANGED <<cancellation_token, break_loop, frames_seen, packet_queue,
                   publisher_queue, main_pc, capture_pc, capture_frame,
                   filter_packet, validator_pc, domain_return_code_pairs, cycle_count,
                   result_blacklist_check, result_whitelist_check, publisher_pc,
                   published, window, flush_start,
                   signal_vars, call_vars, publish_vars>>

(***************************************************************************)
(* DomainValidator::ProcessDomains                                         *)
(***************************************************************************)
\* while (!cancellation_token.load())
ValidatorCheck ==
    /\ validator_pc = "check"
    /\ validator_pc' = IF cancellation_token THEN "done" ELSE "pop"
    /\ UNCHANGED <<cancellation_token, break_loop, frames_seen, packet_queue,
                   dns_info_queue, publisher_queue, main_pc, capture_pc,
                   capture_frame, filter_pc, filter_packet, filter_info,
                   domain_return_code_pairs, cycle_count,
                   result_blacklist_check, result_whitelist_check, publisher_pc,
                   published, window, flush_start,
                   signal_vars, call_vars, publish_vars>>

\* try_pop succeeded: ProcessPacketInfo, then ShouldProcessBatch decides
\* whether ProcessBatch runs
ValidatorPop ==
    /\ validator_pc = "pop"
    /\ dns_info_queue # <<>>
    /\ LET packet_info == Head(dns_info_queue)
           r == ProcessPacketInfo(packet_info, domain_return_code_pairs, cycle_count)
       IN  /\ dns_info_queue' = Tail(dns_info_queue)
           /\ domain_return_code_pairs' = r.pairs
           /\ cycle_count' = r.cycle
           /\ window' = window \o [k \in 1..Len(packet_info.domain_names) |->
                                      <<packet_info.domain_names[k],
                                        packet_info.response_code>>]
           /\ IF ShouldProcessBatch(Cardinality(r.pairs), r.cycle,
                                    MAX_BATCH_SIZE, MAX_CYCLE_COUNT)
              THEN /\ validator_pc' = "blacklist"
                   /\ flush_start' = r.pairs
              ELSE /\ validator_pc' = "check"
                   /\ UNCHANGED flush_start
    /\ UNCHANGED <<cancellation_token, break_loop, frames_seen, packet_queue,
                   publisher_queue, main_pc, capture_pc, capture_frame,
                   filter_pc, filter_packet, filter_info, result_blacklist_check,
                   result_whitelist_check, publisher_pc, published,
                   signal_vars, call_vars, publish_vars>>

\* try_pop failed: sleep 100 ms
ValidatorIdle ==
    /\ validator_pc = "pop"
    /\ dns_info_queue = <<>>
    /\ validator_pc' = "check"
    /\ UNCHANGED <<cancellation_token, break_loop, frames_seen, packet_queue,
                   dns_info_queue, publisher_queue, main_pc, capture_pc,
                   capture_frame, filter_pc, filter_packet, filter_info,
                   domain_return_code_pairs, cycle_count,
                   result_blacklist_check, result_whitelist_check, publisher_pc,
                   published, window, flush_start,
                   signal_vars, call_vars, publish_vars>>

\* ProcessBatch: database_->CheckInBlacklist(domain_names_to_query).  The
\* store holds documents for the names `hits`; outcomes[k] is how the k-th
\* run of the query would end.
ValidatorBlacklist ==
    /\ validator_pc = "blacklist"
    /\ \E hits \in SUBSET Keys(domain_return_code_pairs) :
          \E outcomes \in [1..max_retries -> AttemptOutcomes("Blacklist", hits)] :
             LET call == StoreCall("Blacklist", Keys(domain_return_code_pairs),
                                   hits, outcomes)
             IN  /\ result_blacklist_check' =
                       CheckResult(Keys(domain_return_code_pairs), hits, call)
                 /\ cancellation_token' = (cancellation_token \/ Exhausted(call))
    /\ validator_pc' = "whitelist"
    /\ UNCHANGED <<break_loop, frames_seen, packet_queue, dns_info_queue,
                   publisher_queue, main_pc, capture_pc, capture_frame,
                   filter_pc, filter_packet, filter_info, domain_return_code_pairs,
                   cycle_count, result_whitelist_check, publisher_pc, published, window, flush_start,
                   signal_vars, call_vars, publish_vars>>

\* ProcessBatch: database_->CheckInWhitelist(domain_names_to_query), then
\* the two RemoveListedDomains calls
ValidatorWhitelist ==
    /\ validator_pc = "whitelist"
    /\ \E hits \in SUBSET Keys(domain_return_code_pairs) :
          \E outcomes \in [1..max_retries -> AttemptOutcomes("Whitelist", hits)] :
             LET call == StoreCall("Whitelist", Keys(domain_return_code_pairs),
                                   hits, outcomes)
                 result == CheckResult(Keys(domain_return_code_pairs), hits, call)
             IN  /\ result_whitelist_check' = result
                 /\ cancellation_token' = (cancellation_token \/ Exhausted(call))
                 /\ domain_return_code_pairs' =
                       RemoveListedDomains(
                           RemoveListedDomains(domain_return_code_pairs,
                                               result_blacklist_check),
                           result)
    /\ validator_pc' = "emplace"
    /\ UNCHANGED <<break_loop, frames_seen, packet_queue, dns_info_queue,
                   publisher_queue, main_pc, capture_pc, capture_frame,
                   filter_pc, filter_packet, filter_info, cycle_count, result_blacklist_check,
                   publisher_pc, published, window,
                   flush_start,
                   signal_vars, call_vars, publish_vars>>

\* history: the batches flushed so far, each still queued or already popped
FlushCount == Len(publisher_queue) + Len(published)

\* ProcessBatch: publisher_queue_->emplace(ValidatedDomains{...}) completes,
\* then clear(); ProcessDomains resets cycle_count.  flush_no,
\* queued_behind, start, window, blacklist and whitelist are history
\* carried with the batch.
ValidatorEmplace ==
    /\ validator_pc = "emplace"
    /\ HasSpace(publisher_queue, PublisherQueueSize)
    /\ publisher_queue' = Emplace(publisher_queue,
            [domain_return_code_pairs_ |-> domain_return_code_pairs,
             flush_no |-> FlushCount + 1,
             queued_behind |-> Len(publisher_queue),
             start |-> flush_start,
             window |-> window,
             blacklist |-> result_blacklist_check,
             whitelist |-> result_whitelist_check])
    /\ domain_return_code_pairs' = {}
    /\ cycle_count' = 0
    /\ result_blacklist_check' = {}
    /\ result_whitelist_check' = {}
    /\ window' = <<>>
    /\ flush_start' = {}
    /\ validator_pc' = "check"
    /\ UNCHANGED <<cancellation_token, break_loop, frames_seen, packet_queue,
                   dns_info_queue, main_pc, capture_pc, capture_frame,
                   filter_pc, filter_packet, filter_info, publisher_pc, published,
                   signal_vars, call_vars, publish_vars>>

(***************************************************************************)
(* Publisher::Process                                                      *)
(***************************************************************************)
\* while (!cancellation_token.load())
PublisherCheck ==
    /\ publisher_pc = "check"
    /\ publisher_pc' = IF cancellation_token THEN "done" ELSE "pop"
    /\ UNCHANGED <<cancellation_token, break_loop, frames_seen, packet_queue,
                   dns_info_queue, publisher_queue, main_pc, capture_pc,
                   capture_frame, filter_pc, filter_packet, filter_info, validator_pc,
                   domain_return_code_pairs, cycle_count,
                   result_blacklist_check, result_whitelist_check, published, window, flush_start,
                   signal_vars, call_vars, publish_vars>>

\* try_pop succeeded: ToJson, dump, PublishMessage, which makes one
\* amqp_basic_publish call whose status the broker library decides.  batch
\* (history) is the popped queue element.
PublisherPop ==
    /\ publisher_pc = "pop"
    /\ publisher_queue # <<>>
    /\ \E status \in {"ok", "failed"} :
          LET domains == Head(publisher_queue)
          IN  /\ publisher_queue' = Tail(publisher_queue)
              /\ published' = Append(published,
                     [message |-> Dump(ToJson(domains.domain_return_code_pairs_)),
                      batch |-> domains])
              /\ publish_failed' = (publish_failed \/ status = "failed")
              /\ cancellation_token' = AfterPublish(status, cancellation_token)
    /\ publisher_pc' = "check"
    /\ UNCHANGED <<break_loop, frames_seen, packet_queue,
                   dns_info_queue, main_pc, capture_pc, capture_frame,
                   filter_pc, filter_packet, filter_info, validator_pc,
                   domain_return_code_pairs, cycle_count,
                   result_blacklist_check, result_whitelist_check, window, flush_start,
                   signal_vars, call_vars>>

\* try_pop failed: the loop goes round
PublisherIdle ==
    /\ publisher_pc = "pop"
    /\ publisher_queue = <<>>
    /\ publisher_pc' = "check"
    /\ UNCHANGED <<cancellation_token, break_loop, frames_seen, packet_queue,
                   dns_info_queue, publisher_queue, main_pc, capture_pc,
                   capture_frame, filter_pc, filter_packet, filter_info, validator_pc,
                   domain_return_code_pairs, cycle_count,
                   result_blacklist_check, result_whitelist_check, published, window, flush_start,
                   signal_vars, call_vars, publish_vars>>

(***************************************************************************)
(* Specifications                                                          *)
(***************************************************************************)
Next ==
    \/ InitializeComponents
    \/ SignalHandler
    \/ RunSpawn
    \/ RunJoin
    \/ \E frame \in Frames : PacketHandler(frame)
    \/ PacketHandlerResume
    \/ StartCaptureReturn
    \/ StartCaptureError
    \/ \E i \in Filters : FilterCheck(i)
    \/ \E i \in Filters : FilterPop(i)
    \/ \E i \in Filters : FilterIdle(i)
    \/ \E i \in Filters : FilterEmplace(i)
    \/ ValidatorCheck
    \/ ValidatorPop
    \/ ValidatorIdle
    \/ ValidatorBlacklist
    \/ ValidatorWhitelist
    \/ ValidatorEmplace
    \/ PublisherCheck
    \/ PublisherPop
    \/ PublisherIdle

Spec == Init /\ [][Next]_vars

(***************************************************************************)
(* The database object on its own: CheckInBlacklist and CheckInWhitelist   *)
(* called with any set of names, any list content and any outcome of the   *)
(* query runs.                                                             *)
(***************************************************************************)
pipeline_vars ==
    <<break_loop, frames_seen, packet_queue, dns_info_queue, publisher_queue,
      main_pc, capture_pc, capture_frame, filter_pc, filter_packet,
      filter_info, validator_pc, domain_return_code_pairs, cycle_count,
      publisher_pc, published, window, flush_start, signal_vars,
      publish_vars>>

CheckInBlacklist ==
    /\ \E elements \in SUBSET Domain :
          \E hits \in SUBSET elements :
             \E outcomes \in [1..max_retries -> AttemptOutcomes("Blacklist", hits)] :
                LET call == StoreCall("Blacklist", elements, hits, outcomes)
                IN  /\ store_call' = call
                    /\ result_blacklist_check' = CheckResult(elements, hits, call)
                    /\ cancellation_token' = (cancellation_token \/ Exhausted(call))
    /\ UNCHANGED <<result_whitelist_check, pipeline_vars, startup_vars, library_vars>>

CheckInWhitelist ==
    /\ \E elements \in SUBSET Domain :
          \E hits \in SUBSET elements :
             \E outcomes \in [1..max_retries -> AttemptOutcomes("Whitelist", hits)] :
                LET call == StoreCall("Whitelist", elements, hits, outcomes)
                IN  /\ store_call' = call
                    /\ result_whitelist_check' = CheckResult(elements, hits, call)
                    /\ cancellation_token' = (cancellation_token \/ Exhausted(call))
    /\ UNCHANGED <<result_blacklist_check, pipeline_vars, startup_vars, library_vars>>

StoreNext ==
    \/ CheckInBlacklist
    \/ CheckInWhitelist

StoreSpec == Init /\ [][StoreNext]_vars

(***************************************************************************)
(* Arguments::CalculateSizes on its own, called with any budget.           *)
(***************************************************************************)
run_vars ==
    <<cancellation_token, result_blacklist_check, result_whitelist_check,
      pipeline_vars, store_call>>

ArgumentsCalculateSizes ==
    /\ \E value \in Budgets : sizes' = CalculateSizes(value)
    /\ UNCHANGED <<run_vars, library_vars, buffer_call, parse_call, startup>>

SizerNext == ArgumentsCalculateSizes

SizerSpec == Init /\ [][SizerNext]_vars

(***************************************************************************)
(* NetworkAnalyser::SetBufferSize on its own, called with any size on a    *)
(* handle whose driver accepts or rejects each request.                    *)
(***************************************************************************)
\* the call: buffer_size is the parameter
SetBufferSizeCall ==
    /\ buffer_call.status # "loop"
    /\ \E buffer_size \in StartSizes :
          buffer_call' = [status |-> "loop", start |-> buffer_size,
                          buffer_size |-> buffer_size, requested |-> <<>>,
                          accepted |-> <<>>, code |-> 0]
    /\ UNCHANGED <<run_vars, library_vars, sizes, parse_call, startup>>

\* one turn of the loop: pcap_set_buffer_size(handle_, buffer_size), return
\* on 0, otherwise buffer_size -= DECREMENT_SIZE
SetBufferSizeRequest ==
    /\ buffer_call.status = "loop"
    /\ KeepsTrying(buffer_call.buffer_size)
    /\ \E ok \in BOOLEAN :
          buffer_call' =
              [buffer_call EXCEPT
                  !.requested = Append(@, buffer_call.buffer_size),
                  !.accepted = Append(@, ok),
                  !.status = IF ok THEN "returned" ELSE "loop",
                  !.buffer_size = IF ok THEN @ ELSE @ - DECREMENT_SIZE]
    /\ UNCHANGED <<run_vars, library_vars, sizes, parse_call, startup>>

\* the loop condition fails: throw NetworkAnalyserException
SetBufferSizeThrow ==
    /\ buffer_call.status = "loop"
    /\ ~KeepsTrying(buffer_call.buffer_size)
    /\ buffer_call' = [buffer_call EXCEPT !.status = "thrown",
                                          !.code = NETWORK_ANALYSER_CREATION_FAILURE]
    /\ UNCHANGED <<run_vars, library_vars, sizes, parse_call, startup>>

BufferNext ==
    \/ SetBufferSizeCall
    \/ SetBufferSizeRequest
    \/ SetBufferSizeThrow

BufferSpec == Init /\ [][BufferNext]_vars

(***************************************************************************)
(* Arguments::Parse on its own, called with any command line and any       *)
(* appsettings.json.                                                       *)
(***************************************************************************)
\* Parse is called once, on a new Arguments object
ArgumentsParse ==
    /\ parse_call.status = "none"
    /\ \E input \in ParseInputs :
          LET result == Parse(input)
          IN  parse_call' = [input |-> input, status |-> result.status,
                             code |-> result.code, settings |-> result.settings,
                             sources |-> result.sources]
    /\ UNCHANGED <<run_vars, library_vars, sizes, buffer_call, startup>>

ArgumentsNext == ArgumentsParse

ArgumentsSpec == Init /\ [][ArgumentsNext]_vars

(***************************************************************************)
(* main from its entry to its return, every step of the constructor free   *)
(* to fail.                                                                *)
(***************************************************************************)
\* args->Parse(argc, argv); SetNumberOfThreads(args->GetNumberOfThreads())
MainParse ==
    /\ startup.pc = "parse"
    /\ \E input \in StartupInputs :
          LET result == Parse(input)
              called == [startup EXCEPT !.input = input]
          IN  startup' =
                  IF result.status = "thrown"
                  THEN Thrown(called,
                              IF result.code = ARGUMENT_HELP THEN "help" ELSE "arguments",
                              "ArgumentException", result.code)
                  ELSE [called EXCEPT !.pc = "queues",
                                      !.total_threads = result.settings.threads]
    /\ UNCHANGED <<run_vars, library_vars, sizes, buffer_call, parse_call>>

\* the three make_unique<MPMCQueueWrapper<...>> calls
MainCreateQueues ==
    /\ startup.pc = "queues"
    /\ \E failed \in BOOLEAN :
          startup' = IF failed
                     THEN Thrown(startup, "queues", "std::bad_alloc", FAILURE)
                     ELSE [startup EXCEPT !.pc = "analyser"]
    /\ UNCHANGED <<run_vars, library_vars, sizes, buffer_call, parse_call>>

\* make_unique<NetworkAnalyser>(...)
MainCreateAnalyser ==
    /\ startup.pc = "analyser"
    /\ \E step \in AnalyserSteps \cup {"none"} :
          startup' = IF step # "none"
                     THEN Thrown(startup, step, "NetworkAnalyserException",
                                 NETWORK_ANALYSER_CREATION_FAILURE)
                     ELSE [startup EXCEPT !.pc = "database"]
    /\ UNCHANGED <<run_vars, library_vars, sizes, buffer_call, parse_call>>

\* make_unique<MongoDbDatabase>(...)
MainCreateDatabase ==
    /\ startup.pc = "database"
    /\ \E step \in DatabaseSteps \cup {"none"} :
          startup' = IF step # "none"
                     THEN Thrown(startup, step, "std::runtime_error", FAILURE)
                     ELSE [startup EXCEPT !.pc = "broker"]
    /\ UNCHANGED <<run_vars, library_vars, sizes, buffer_call, parse_call>>

\* make_unique<MessagePublisher>(...): ParseConnectionString, then
\* Initialize, which throws for the socket and goes on whatever amqp_login
\* and amqp_channel_open return
MainCreateMessagePublisher ==
    /\ startup.pc = "broker"
    /\ \/ \E throw \in PublisherThrows :
             startup' = Thrown(startup, throw[1], throw[2], FAILURE)
       \/ \E ignored \in SUBSET PublisherIgnored :
             startup' = [startup EXCEPT !.pc = "run", !.failed = @ \cup ignored]
    /\ UNCHANGED <<run_vars, library_vars, sizes, buffer_call, parse_call>>

\* detector->Run() up to the first join: the threads are started
MainRun ==
    /\ startup.pc = "run"
    /\ startup' = [startup EXCEPT
                       !.pc = "join",
                       !.threads = [capture |-> 1,
                                    filter |-> FilterThreads(startup.total_threads),
                                    validator |-> 1,
                                    publisher |-> 1]]
    /\ UNCHANGED <<run_vars, library_vars, sizes, buffer_call, parse_call>>

\* the joins return; return SUCCESS
MainReturn ==
    /\ startup.pc = "join"
    /\ startup' = [startup EXCEPT !.pc = "exited", !.exit_code = SUCCESS]
    /\ UNCHANGED <<run_vars, library_vars, sizes, buffer_call, parse_call>>

StartupNext ==
    \/ MainParse
    \/ MainCreateQueues
    \/ MainCreateAnalyser
    \/ MainCreateDatabase
    \/ MainCreateMessagePublisher
    \/ MainRun
    \/ MainReturn

StartupSpec == Init /\ [][StartupNext]_vars

(***************************************************************************)
(* DetectorPacket on its own: any sequence of constructions, copies,       *)
(* moves, assignments and destructions of a few objects.  An object that   *)
(* was the source of a move is only assigned to or destroyed.  After a     *)
(* delete[] of a buffer that is not allocated the behaviour is undefined   *)
(* and the run is followed no further.                                     *)
(***************************************************************************)
Usable(p) == packets[p].alive /\ ~packets[p].moved_from

\* DetectorPacket(const pcap_pkthdr &hdr, const u_char *packet_data)
PacketConstruct(p, len, data) ==
    /\ ~heap.freed_twice
    /\ ~packets[p].alive
    /\ IF len <= MAX_STATIC_SIZE
       THEN /\ packets' = [packets EXCEPT ![p] =
                   [alive |-> TRUE, data_size |-> len, static_data |-> data,
                    dynamic_data |-> nullptr, payload |-> data,
                    moved_from |-> FALSE]]
            /\ heap' = heap
       ELSE \E a \in FreeBuffers(heap) :
              /\ packets' = [packets EXCEPT ![p] =
                     [alive |-> TRUE, data_size |-> len, static_data |-> Junk,
                      dynamic_data |-> a, payload |-> data,
                      moved_from |-> FALSE]]
              /\ heap' = NewBuffer(heap, a, data)
    /\ UNCHANGED <<run_vars, startup_vars, unit_vars>>

\* DetectorPacket(const DetectorPacket &other)
PacketCopyConstruct(p, other) ==
    /\ ~heap.freed_twice
    /\ ~packets[p].alive
    /\ Usable(other)
    /\ LET o == packets[other]
       IN  IF o.data_size <= MAX_STATIC_SIZE
           THEN /\ packets' = [packets EXCEPT ![p] =
                       [alive |-> TRUE, data_size |-> o.data_size,
                        static_data |-> o.static_data, dynamic_data |-> nullptr,
                        payload |-> o.payload, moved_from |-> FALSE]]
                /\ heap' = heap
           ELSE \E a \in FreeBuffers(heap) :
                  /\ packets' = [packets EXCEPT ![p] =
                         [alive |-> TRUE, data_size |-> o.data_size,
                          static_data |-> Junk, dynamic_data |-> a,
                          payload |-> o.payload, moved_from |-> FALSE]]
                  /\ heap' = NewBuffer(heap, a, ReadData(o, heap))
    /\ UNCHANGED <<run_vars, startup_vars, unit_vars>>

\* DetectorPacket(DetectorPacket &&other)
PacketMoveConstruct(p, other) ==
    /\ ~heap.freed_twice
    /\ ~packets[p].alive
    /\ Usable(other)
    /\ LET o == packets[other]
       IN  packets' = [packets EXCEPT
               ![p] = [alive |-> TRUE, data_size |-> o.data_size,
                       static_data |-> IF o.data_size > MAX_STATIC_SIZE
                                       THEN Junk ELSE o.static_data,
                       dynamic_data |-> o.dynamic_data,
                       payload |-> o.payload, moved_from |-> FALSE],
               ![other] = [o EXCEPT
                       !.dynamic_data = IF o.data_size > MAX_STATIC_SIZE
                                        THEN nullptr ELSE @,
                       !.moved_from = TRUE]]
    /\ heap' = heap
    /\ UNCHANGED <<run_vars, startup_vars, unit_vars>>

\* operator=(DetectorPacket &&other), this != &other
PacketMoveAssign(p, other) ==
    /\ ~heap.freed_twice
    /\ packets[p].alive
    /\ Usable(other)
    /\ p # other
    /\ LET o == packets[other]
           t == packets[p]
       IN  IF o.data_size <= MAX_STATIC_SIZE
           THEN /\ packets' = [packets EXCEPT
                       ![p] = [t EXCEPT !.data_size = o.data_size,
                                        !.static_data = o.static_data,
                                        !.payload = o.payload,
                                        !.moved_from = FALSE],
                       ![other] = [o EXCEPT !.moved_from = TRUE]]
                /\ heap' = heap
           ELSE /\ packets' = [packets EXCEPT
                       ![p] = [t EXCEPT !.data_size = o.data_size,
                                        !.dynamic_data = o.dynamic_data,
                                        !.payload = o.payload,
                                        !.moved_from = FALSE],
                       ![other] = [o EXCEPT !.dynamic_data = nullptr,
                                            !.moved_from = TRUE]]
                /\ heap' = DeleteBuffer(heap, t.dynamic_data)
    /\ UNCHANGED <<run_vars, startup_vars, unit_vars>>

\* operator=(const DetectorPacket &other), this != &other
PacketCopyAssign(p, other) ==
    /\ ~heap.freed_twice
    /\ packets[p].alive
    /\ Usable(other)
    /\ p # other
    /\ LET o == packets[other]
           t == packets[p]
       IN  IF o.data_size <= MAX_STATIC_SIZE
           THEN /\ packets' = [packets EXCEPT
                       ![p] = [t EXCEPT !.data_size = o.data_size,
                                        !.static_data = o.static_data,
                                        !.payload = o.payload,
                                        !.moved_from = FALSE]]
                /\ heap' = heap
           ELSE \E newData \in FreeBuffers(heap) :
                  /\ packets' = [packets EXCEPT
                         ![p] = [t EXCEPT !.data_size = o.data_size,
                                          !.dynamic_data = newData,
                                          !.payload = o.payload,
                                          !.moved_from = FALSE]]
                  /\ heap' = DeleteBuffer(NewBuffer(heap, newData, ReadData(o, heap)),
                                          t.dynamic_data)
    /\ UNCHANGED <<run_vars, startup_vars, unit_vars>>

\* ~DetectorPacket()
PacketDestroy(p) ==
    /\ ~heap.freed_twice
    /\ packets[p].alive
    /\ packets' = [packets EXCEPT ![p] = NoDetectorPacket]
    /\ heap' = DeleteBuffer(heap, packets[p].dynamic_data)
    /\ UNCHANGED <<run_vars, startup_vars, unit_vars>>

PacketNext ==
    \/ \E p \in PacketIds, len \in PacketLengths, data \in PacketData :
          PacketConstruct(p, len, data)
    \/ \E p, other \in PacketIds : PacketCopyConstruct(p, other)
    \/ \E p, other \in PacketIds : PacketMoveConstruct(p, other)
    \/ \E p, other \in PacketIds : PacketMoveAssign(p, other)
    \/ \E p, other \in PacketIds : PacketCopyAssign(p, other)
    \/ \E p \in PacketIds : PacketDestroy(p)

PacketSpec == Init /\ [][PacketNext]_vars

(***************************************************************************)
(* Arguments::TrimQuotes called once with any string.                      *)
(***************************************************************************)
TrimQuotesCall ==
    /\ trim_call.status = "none"
    /\ \E input \in TrimInputs :
          \E front \in IF input = <<>> THEN FrontOfEmpty ELSE {"character"} :
              trim_call' =
                  IF front = "aborted"
                  THEN [status |-> "aborted", input |-> input, output |-> <<>>]
                  ELSE [status |-> "returned", input |-> input,
                        output |-> TrimQuotes(input)]
    /\ UNCHANGED <<run_vars, startup_vars, object_vars, handle>>

TrimNext == TrimQuotesCall

TrimSpec == Init /\ [][TrimNext]_vars

(***************************************************************************)
(* NetworkAnalyser's private member functions called in any order on one   *)
(* handle, as the tests call them.                                         *)
(***************************************************************************)
HandleSetBufferSize ==
    /\ \E buffer_size \in HandleBufferSizes :
         \E accepted \in Acceptable(handle.pcap, buffer_size) :
            handle' = AfterCall(handle, "SetBufferSize",
                                SetBufferSizeOn(handle.pcap, buffer_size, accepted))
    /\ UNCHANGED <<run_vars, startup_vars, object_vars, trim_call>>

HandleSetSnaplen ==
    /\ handle' = AfterCall(handle, "SetSnaplen",
                           SetOptionOn(handle.pcap, "snaplen", PCAP_SNAPLEN))
    /\ UNCHANGED <<run_vars, startup_vars, object_vars, trim_call>>

HandleSetPromiscuousMode ==
    /\ handle' = AfterCall(handle, "SetPromiscuousMode",
                           SetOptionOn(handle.pcap, "promisc", PROMISC_MODE))
    /\ UNCHANGED <<run_vars, startup_vars, object_vars, trim_call>>

HandleSetTimeout ==
    /\ handle' = AfterCall(handle, "SetTimeout",
                           SetOptionOn(handle.pcap, "timeout", TIMEOUT_IN_MS))
    /\ UNCHANGED <<run_vars, startup_vars, object_vars, trim_call>>

HandleActivate ==
    /\ \E activate \in PcapActivate(handle.pcap) :
          handle' = AfterCall(handle, "ActivateHandle",
                       [outcome |-> IF ActivateFailed(activate.result)
                                    THEN ThrownNetworkAnalyserException
                                    ELSE Returned,
                        pcap |-> activate.pcap])
    /\ UNCHANGED <<run_vars, startup_vars, object_vars, trim_call>>

HandleSetBpfFilter ==
    /\ handle' = AfterCall(handle, "SetBpfFilter", SetBpfFilterOn(handle.pcap))
    /\ UNCHANGED <<run_vars, startup_vars, object_vars, trim_call>>

HandleNext ==
    \/ HandleSetBufferSize
    \/ HandleSetSnaplen
    \/ HandleSetPromiscuousMode
    \/ HandleSetTimeout
    \/ HandleActivate
    \/ HandleSetBpfFilter

HandleSpec == Init /\ [][HandleNext]_vars

\* The operating system schedules every started thread: each thread step
\* that stays enabled is eventually taken.  Frame arrival and signals are
\* the environment's and carry no fairness.
Fairness ==
    /\ WF_vars(InitializeComponents)
    /\ WF_vars(RunSpawn)
    /\ WF_vars(RunJoin)
    /\ WF_vars(PacketHandlerResume)
    /\ WF_vars(StartCaptureReturn)
    /\ \A i \in Filters :
          /\ WF_vars(FilterCheck(i))
          /\ WF_vars(FilterPop(i))
          /\ WF_vars(FilterIdle(i))
          /\ WF_vars(FilterEmplace(i))
    /\ WF_vars(ValidatorCheck)
    /\ WF_vars(ValidatorPop)
    /\ WF_vars(ValidatorIdle)
    /\ WF_vars(ValidatorBlacklist)
    /\ WF_vars(ValidatorWhitelist)
    /\ WF_vars(ValidatorEmplace)
    /\ WF_vars(PublisherCheck)
    /\ WF_vars(PublisherPop)
    /\ WF_vars(PublisherIdle)

FairSpec == Spec /\ Fairness

TypeOK ==
    /\ cancellation_token \in BOOLEAN
    /\ break_loop \in BOOLEAN
    /\ frames_seen \in 0..MaxFrames
    /\ main_pc \in {"construct", "spawn", "join", "returned"}
    /\ global_analyser_ptr \in BOOLEAN
    /\ stop_capture_calls \in 0..MaxSignals
    /\ capture_pc \in {"idle", "loop", "handler", "done"}
    /\ \A i \in Filters : filter_pc[i] \in {"idle", "check", "pop", "emplace", "done"}
    /\ validator_pc \in {"idle", "check", "pop", "blacklist", "whitelist", "emplace", "done"}
    /\ publisher_pc \in {"idle", "check", "pop", "done"}

(***************************************************************************)
(* Properties                                                              *)
(***************************************************************************)
QueueElements(queue) == {queue[k] : k \in 1..Len(queue)}

PublishedBatches == {published[k].batch : k \in 1..Len(published)}

\* C1: every domain of every batch handed to PublishMessage was mapped to
\* false by the blacklist check and by the whitelist check of the flush
\* that produced the batch.
C1_NoClassifiedLeak ==
    \A b \in PublishedBatches :
        \A d \in Keys(b.domain_return_code_pairs_) :
            /\ <<d, FALSE>> \in b.blacklist
            /\ <<d, FALSE>> \in b.whitelist

AllThreadsDone ==
    /\ capture_pc = "done"
    /\ \A i \in Filters : filter_pc[i] = "done"
    /\ validator_pc = "done"
    /\ publisher_pc = "done"

\* C2: once cancellation_token is set, every thread leaves its loop and
\* Detector::Run returns.
C2_GracefulShutdown ==
    cancellation_token ~> (AllThreadsDone /\ main_pc = "returned")

FilterPops(i) ==
    /\ filter_pc[i] = "pop"
    /\ filter_pc'[i] # "pop"
    /\ packet_queue # <<>>

\* C4: a filter that pops a query (QR = 0) or a packet without a DNS layer
\* returns to its loop without touching DnsInfoQueue, and every push onto
\* DnsInfoQueue is made by a filter whose popped packet is a response.
C4_NoRecordForQueryOrMalformed ==
    [][ /\ \A i \in Filters :
              (FilterPops(i) /\ Head(packet_queue).kind \in {"query", "malformed"})
                  => /\ filter_pc'[i] = "check"
                     /\ filter_info'[i] = NoInfo
                     /\ dns_info_queue' = dns_info_queue
        /\ (Len(dns_info_queue') > Len(dns_info_queue))
              => \E i \in Filters : /\ filter_pc[i] = "emplace"
                                    /\ filter_pc'[i] = "check"
                                    /\ filter_packet[i].kind = "response"
      ]_vars

\* a filter is back in its loop after popping a query while DnsInfoQueue
\* is still empty
C4_Witness ==
    \E i \in Filters :
        /\ filter_pc[i] = "check"
        /\ filter_packet[i].kind = "query"
        /\ dns_info_queue = <<>>

\* C5: no message is published for a batch whose domain map is empty.
C5_NoEmptyPublish ==
    \A b \in PublishedBatches : b.domain_return_code_pairs_ # {}

\* the last assignment to d recorded in window w wrote code c
LastAssigned(w, d, c) ==
    \E k \in 1..Len(w) :
        /\ w[k] = <<d, c>>
        /\ \A j \in (k + 1)..Len(w) : w[j][1] # d

WellFormedPairs(pairs, w) ==
    /\ \A p \in pairs, q \in pairs : p[1] = q[1] => p = q
    /\ \A p \in pairs : LastAssigned(w, p[1], p[2])

\* C6: in every batch on PublisherQueue (and in the map being accumulated)
\* each domain has one entry, whose code is that of the last record naming
\* the domain since the previous flush.
C6_LastWriterWins ==
    /\ \A b \in QueueElements(publisher_queue) :
          WellFormedPairs(b.domain_return_code_pairs_, b.window)
    /\ WellFormedPairs(domain_return_code_pairs, window)

\* a batch on PublisherQueue holds a domain that was assigned two different
\* codes in its window
C6_Witness ==
    \E b \in QueueElements(publisher_queue) :
        \E p \in b.domain_return_code_pairs_ :
            \E k \in 1..Len(b.window) :
                b.window[k][1] = p[1] /\ b.window[k][2] # p[2]

\* C7: a frame that arrives while PacketQueue is full is dropped: the
\* callback returns to the capture loop and the queue is unchanged.
C7_CaptureNeverBlocks ==
    [][ (frames_seen' = frames_seen + 1 /\ Len(packet_queue) = PacketQueueSize)
            => (capture_pc' = "loop" /\ packet_queue' = packet_queue)
      ]_vars

\* C8: a filter that pops a response with at least one question goes on to
\* emplace one record with the packet's question names in order and its
\* response code; while DnsInfoQueue is full it keeps waiting with that
\* record, and it leaves the emplace only by appending exactly that record.
C8_OneRecordPerResponse ==
    [][ \A i \in Filters :
          /\ ( /\ FilterPops(i)
               /\ Head(packet_queue).kind = "response"
               /\ Len(Head(packet_queue).names) >= 1 )
                => /\ filter_pc'[i] = "emplace"
                   /\ filter_info'[i] =
                         [domain_names |-> Head(packet_queue).names,
                          response_code |-> Head(packet_queue).rcode]
                   /\ dns_info_queue' = dns_info_queue
          /\ (filter_pc[i] = "emplace" /\ Len(dns_info_queue) >= DNSInfoQueueSize)
                => /\ filter_pc'[i] = "emplace"
                   /\ filter_info'[i] = filter_info[i]
          /\ (filter_pc[i] = "emplace" /\ filter_pc'[i] # "emplace")
                => /\ filter_pc'[i] = "check"
                   /\ dns_info_queue' = Append(dns_info_queue, filter_info[i])
                   /\ filter_info[i] =
                         [domain_names |-> filter_packet[i].names,
                          response_code |-> filter_packet[i].rcode]
      ]_vars

\* DnsInfoQueue is full, holds a record, and a filter is waiting in emplace
\* with the two-name record of the response it popped
C8_Witness ==
    \E i \in Filters :
        /\ filter_pc[i] = "emplace"
        /\ Len(dns_info_queue) = DNSInfoQueueSize
        /\ filter_packet[i].kind = "response"
        /\ Len(filter_info[i].domain_names) = 2

\* the validator takes the step that starts ProcessBatch
FlushStarts == validator_pc # "blacklist" /\ validator_pc' = "blacklist"

\* the validator takes the step in which its try_pop succeeds
ValidatorPops ==
    /\ validator_pc = "pop"
    /\ validator_pc' # "pop"
    /\ dns_info_queue # <<>>

C10_UnlistedDomainsKept ==
    \A b \in QueueElements(publisher_queue) :
        \A p \in b.start :
            (<<p[1], TRUE>> \notin b.blacklist /\ <<p[1], TRUE>> \notin b.whitelist)
                => p \in b.domain_return_code_pairs_

\* a pushed batch kept one domain and lost another to a list hit
C10_Witness ==
    \E b \in QueueElements(publisher_queue) :
        /\ b.domain_return_code_pairs_ # {}
        /\ b.domain_return_code_pairs_ # b.start
        /\ \E p \in b.domain_return_code_pairs_ : <<p[1], FALSE>> \in b.blacklist

\* a store check of the running flush came back empty: its retries were
\* exhausted (a flush queries at least one name, and a query that returns
\* has an entry for every queried name)
StoreCheckExhausted ==
    \/ validator_pc \in {"whitelist", "emplace"} /\ result_blacklist_check = {}
    \/ validator_pc = "emplace" /\ result_whitelist_check = {}

\* C11: once a store check of a flush has exhausted its retries, the
\* validator issues no further store query (it does not run the whitelist
\* check) and nothing more is pushed onto PublisherQueue.
C11_ExitAfterExhaustion ==
    [][ StoreCheckExhausted =>
            /\ ~(validator_pc = "whitelist" /\ validator_pc' = "emplace")
            /\ Len(publisher_queue') <= Len(publisher_queue)
      ]_vars

\* the map the last CheckInBlacklist / CheckInWhitelist call returned
StoreResult ==
    IF store_call.list_name = "Blacklist"
    THEN result_blacklist_check
    ELSE result_whitelist_check

\* C12: a check call runs the query at most 3 times; if some run would
\* return, the call makes exactly the runs up to the first such one and
\* returns its result; if none would, it makes all 3 runs and reports the
\* exception of the last one.
C12_BoundedRetries ==
    store_call # NoCall =>
        /\ store_call.attempts <= 3
        /\ store_call.first_ok # 0 =>
              /\ store_call.attempts = store_call.first_ok
              /\ store_call.status = "ok"
              /\ StoreResult = QueryFunc(store_call.elements, store_call.hits)
        /\ store_call.first_ok = 0 =>
              /\ store_call.attempts = 3
              /\ store_call.status = "rethrow"
              /\ store_call.error = 3

\* a blacklist check returned on its third run, after a failed query and a
\* failed insert
C12_Witness ==
    /\ store_call.list_name = "Blacklist"
    /\ store_call.status = "ok"
    /\ store_call.attempts = 3
    /\ store_call.failed_kinds = {"find_throws", "insert_throws"}

\* the publisher takes the step in which its try_pop succeeds
PublisherPops ==
    /\ publisher_pc = "pop"
    /\ publisher_pc' # "pop"
    /\ publisher_queue # <<>>

\* C13: for a popped batch the publisher hands at most 5 messages to the
\* broker; whether or not the publish fails, the batch is gone from the
\* queue, cancellation_token is what it was, and the publisher is back at
\* the head of its loop.
C13_PublishFailureTolerated ==
    [][ PublisherPops =>
            /\ Len(published') <= Len(published) + 5
            /\ publisher_queue' = Tail(publisher_queue)
            /\ cancellation_token' = cancellation_token
            /\ publisher_pc' = "check"
      ]_vars

\* after a failed publish the publisher is about to pop the next batch,
\* cancellation_token unset
C13_Witness ==
    /\ publish_failed
    /\ ~cancellation_token
    /\ publisher_pc = "pop"
    /\ publisher_queue # <<>>
    /\ Len(published) >= 1

\* C14: when the validator and the publisher have left their loops, no
\* batch is left on PublisherQueue and no domain is left in the pending map.
C14_LosslessShutdown ==
    (validator_pc = "done" /\ publisher_pc = "done")
        => (publisher_queue = <<>> /\ domain_return_code_pairs = {})

\* C15: a signal delivered while the components are being constructed or
\* before the threads are started leads to the capture loop ending and Run
\* returning.
C15_EarlySignalStops ==
    (cancellation_token /\ main_pc \in {"construct", "spawn"})
        ~> (capture_pc = "done" /\ main_pc = "returned")

\* C16: StopCapture is called at most once in a run, however many signals
\* are delivered.
C16_BreakLoopOnce == stop_capture_calls <= 1

\* C17: StartCapture returns only when pcap_breakloop has been called.
C17_LoopEndsOnlyOnBreak ==
    [][ (capture_pc # "done" /\ capture_pc' = "done") => break_loop ]_vars

\* number of documents written to "Results" for name d by the last call
WrittenFor(d) ==
    Cardinality({k \in 1..Len(store_call.written) :
                    store_call.written[k].element = d})

\* C18: a blacklist check that returns has written exactly one "Results"
\* document for each name the store's blacklist holds.
C18_OneResultPerHit ==
    (store_call.list_name = "Blacklist" /\ store_call.status = "ok")
        => \A d \in store_call.hits : WrittenFor(d) = 1

\* C19: a blacklist check in which only HandleBlacklistHit inserts failed
\* still returns the query's map and does not set cancellation_token.
C19_InsertFailureTolerated ==
    ( /\ store_call.list_name = "Blacklist"
      /\ store_call.failed_kinds = {"insert_throws"} )
        => /\ store_call.status = "ok"
           /\ result_blacklist_check # {}

\* C20: the map a check returns has exactly the queried names as keys, true
\* for the names the store's list holds and false for the others.
C20_KeysAreQueriedNames ==
    (store_call # NoCall /\ store_call.status = "ok")
        => StoreResult = {<<e, e \in store_call.hits>> : e \in store_call.elements}

\* C21: a flush whose pending map is empty once the listed names are removed
\* pushes no batch: PublisherQueue never holds a batch with an empty map.
C21_NoEmptyBatchPushed ==
    \A b \in QueueElements(publisher_queue) : b.domain_return_code_pairs_ # {}

\* the JSON object whose only member "domains" maps each name of pairs to
\* its response code
DomainsObject(pairs) ==
    JObject({<<"domains", JObject({<<p[1], JNumber(p[2])>> : p \in pairs})>>})

\* C22: popping a non-empty batch publishes exactly one message, and that
\* message parses as JSON to an object whose only member "domains" maps
\* exactly the batch's names to their response codes.
C22_OneMessagePerBatch ==
    [][ (PublisherPops /\ Head(publisher_queue).domain_return_code_pairs_ # {}) =>
            /\ Len(published') = Len(published) + 1
            /\ SubSeq(published', 1, Len(published)) = published
            /\ ParseJson(published'[Len(published')].message) =
                   DomainsObject(Head(publisher_queue).domain_return_code_pairs_)
      ]_vars

\* a message was published for a batch of two names with a non-zero code
C22_Witness ==
    \E k \in 1..Len(published) :
        /\ published[k].batch.domain_return_code_pairs_ = {<<"a.com", 3>>, <<TypeTag, 3>>}
        /\ ParseJson(published[k].message) =
               DomainsObject(published[k].batch.domain_return_code_pairs_)

\* the flush numbers of the batches in a sequence of batches
FlushNumbers(batches) == [k \in 1..Len(batches) |-> batches[k].flush_no]

\* C23: messages are published in the order in which their batches were
\* flushed: the batches published so far, followed by those waiting in
\* PublisherQueue from front to back, carry strictly increasing flush
\* numbers.
C23_PublishedInFlushOrder ==
    LET order == FlushNumbers([k \in 1..Len(published) |-> published[k].batch])
                 \o FlushNumbers(publisher_queue)
    IN  \A j \in 1..Len(order), k \in 1..Len(order) : j < k => order[j] < order[k]

\* two batches were published, the second one flushed while the first was
\* still waiting in PublisherQueue
C23_Witness ==
    /\ Len(published) = 2
    /\ published[2].batch.queued_behind = 1

\* C26: the packet buffer size is min(floor(B * 65 / 100), INT_MAX) for
\* every budget B, the product B * 65 taken without wrap-around.
C26_PacketBufferShare ==
    sizes # NoSizes =>
        sizes.packet_buffer_size_ = Min((sizes.value * 65) \div 100, INT_MAX)

\* C27: the three queue capacities are monotone in the budget: a budget no
\* larger than the one CalculateSizes was called with gives capacities that
\* are no larger.
C27_CapacitiesMonotone ==
    sizes # NoSizes =>
        \A smaller \in {b \in Budgets : b <= sizes.value} :
            LET plan == CalculateSizes(smaller)
            IN  /\ plan.packet_queue_size_ <= sizes.packet_queue_size_
                /\ plan.dns_info_queue_size_ <= sizes.dns_info_queue_size_
                /\ plan.publisher_queue_size_ <= sizes.publisher_queue_size_

\* C28: SetBufferSize requests start, start - 5 MiB, start - 10 MiB, ...
\* in that order, never a size below 1 MiB, returns at the first accepted
\* request, throws the capture-initialization error exactly when every
\* request was rejected, and makes at most start / 5 MiB + 1 requests.
C28_BufferSizeFallback ==
    LET requested == buffer_call.requested
        accepted == buffer_call.accepted
        count == Len(requested)
    IN  /\ Len(accepted) = count
        /\ \A k \in 1..count :
              /\ requested[k] = buffer_call.start - (k - 1) * 5 * 1024 * 1024
              /\ requested[k] >= 1024 * 1024
              /\ k < count => ~accepted[k]
        /\ count <= buffer_call.start \div (5 * 1024 * 1024) + 1
        /\ buffer_call.status = "returned" <=> (count > 0 /\ accepted[count])
        /\ buffer_call.status = "thrown" =>
              /\ \A k \in 1..count : ~accepted[k]
              /\ buffer_call.start - count * 5 * 1024 * 1024 < 1024 * 1024
              /\ buffer_call.code = 4
        /\ buffer_call.status = "loop" =>
              \/ ENABLED SetBufferSizeRequest
              \/ ENABLED SetBufferSizeThrow

\* the first request was rejected and the second, 5 MiB smaller, accepted
C28_Witness ==
    /\ buffer_call.status = "returned"
    /\ buffer_call.accepted = <<FALSE, TRUE>>
    /\ buffer_call.requested[2] = buffer_call.start - 5 * 1024 * 1024

\* the source the claim names for an option: the command line when the
\* flag is given, otherwise the file when it has the key
ExpectedOption(cli, file) == IF cli.given THEN cli ELSE file

\* the required options
RequiredKeys == {"interface", "size", "database", "rabbitmq", "queue"}

\* the value of a string option with one pair of surrounding quotes removed
Unquoted(text) ==
    IF Len(text) >= 2 /\ text[1] = text[Len(text)] /\ text[1] \in {"\"", "'"}
    THEN SubSeq(text, 2, Len(text) - 1)
    ELSE text

\* the optional options
OptionalKeys == {"threads", "max_batch_size", "max_cycle_count"}

\* C30: after Parse every setting is the command-line value when the flag
\* was given and otherwise the file's value when the key is present
\* (strings without their surrounding quotes, the two thresholds when
\* neither is zero); Parse fails with the argument-validation code when a
\* required option is in neither source.
C30_SettingsFromSources ==
    LET input == parse_call.input
        missing == {k \in RequiredKeys : ~input.cli[k].given /\ ~input.file[k].given}
        expected(k) == ExpectedOption(input.cli[k], input.file[k])
    IN  (parse_call.status # "none" /\ ~input.help /\ ~input.malformed) =>
            /\ missing # {} =>
                  /\ parse_call.status = "thrown"
                  /\ parse_call.code = 3
            /\ missing = {} =>
                  /\ parse_call.status = "ok"
                  /\ parse_call.settings.size = expected("size").value
                  /\ \A k \in RequiredKeys \ {"size"} :
                        parse_call.settings[k] = Unquoted(expected(k).value)
                  /\ expected("threads").given =>
                        parse_call.settings.threads = expected("threads").value
                  /\ \A k \in OptionalKeys \ {"threads"} :
                        ( /\ expected(k).given
                          /\ parse_call.settings.max_batch_size # 100000
                          /\ parse_call.settings.max_cycle_count # 50000 )
                            => parse_call.settings[k] = expected(k).value

\* the steps of initialization that have failed
InitializationFailed == startup.failed \ {"help"}

\* C24: if any step of initialization fails, no capture, parser,
\* classifier or publisher thread is ever started.
C24_NoThreadAfterFailedInit ==
    InitializationFailed # {} => startup.threads = NoThreads

\* C25: a failed initialization exits with the code of its kind: 2 for
\* --help, 3 for argument validation, 4 for a capture step, 5 for a broker
\* step; the exit code is 0 only after Run has returned.
C25_ExitCodes ==
    startup.pc = "exited" =>
        /\ "help" \in startup.failed => startup.exit_code = 2
        /\ "arguments" \in startup.failed => startup.exit_code = 3
        /\ startup.failed \cap AnalyserSteps # {} => startup.exit_code = 4
        /\ startup.exception # "none"
              /\ startup.failed \cap {t[1] : t \in PublisherThrows} # {}
              => startup.exit_code = 5
        /\ startup.exit_code = 0 =>
              (startup.exception = "none" /\ startup.threads # NoThreads)

\* the larger of two numbers
Max(a, b) == IF a >= b THEN a ELSE b

\* C29: Run starts one capture, one classifier and one publisher thread
\* and N >= 1 parser threads, N being the configured threads value when one
\* is given and max(1, hardware_concurrency - 3) otherwise.
C29_ThreadsStarted ==
    LET input == startup.input
        configured == ExpectedOption(input.cli.threads, input.file.threads)
    IN  startup.threads # NoThreads =>
            /\ startup.threads.capture = 1
            /\ startup.threads.validator = 1
            /\ startup.threads.publisher = 1
            /\ startup.threads.filter >= 1
            /\ startup.threads.filter =
                   IF configured.given THEN configured.value
                   ELSE Max(1, input.hardware_concurrency - 3)

\* C31: the thresholds handed to the classifier are the configured
\* max-batch-size and max-cycle-count, a configured zero replaced by the
\* default (100000 for the batch size, 50000 for the cycle count).
C31_ThresholdsAsConfigured ==
    LET input == parse_call.input
        batch == ExpectedOption(input.cli.max_batch_size, input.file.max_batch_size)
        cycle == ExpectedOption(input.cli.max_cycle_count, input.file.max_cycle_count)
    IN  parse_call.status = "ok" =>
            /\ batch.given =>
                  parse_call.settings.max_batch_size =
                      IF batch.value = 0 THEN 100000 ELSE batch.value
            /\ cycle.given =>
                  parse_call.settings.max_cycle_count =
                      IF cycle.value = 0 THEN 50000 ELSE cycle.value

\* C32: every packet holds its payload in the inline buffer iff its length
\* is at most 750 bytes and in a heap buffer otherwise, and getData()
\* returns the storage holding the payload bytes, after construction and
\* after every copy or move.
C32_PayloadWhereGetDataPoints ==
    \A p \in PacketIds :
        Usable(p) =>
            /\ GetData(packets[p])[1] = "static_data"
                   <=> packets[p].data_size <= 750
            /\ GetData(packets[p])[1] = "dynamic_data" =>
                  /\ packets[p].dynamic_data # nullptr
                  /\ heap.cells[packets[p].dynamic_data].allocated
            /\ ReadData(packets[p], heap) = packets[p].payload

\* the buffers a set of live packets point to
OwnedBy(p) ==
    IF packets[p].alive /\ packets[p].dynamic_data # nullptr
    THEN {packets[p].dynamic_data} ELSE {}

\* C37: across any sequence of constructions, copies, moves and
\* assignments no heap buffer is owned by two packets at once, none is
\* freed twice and none is leaked.
C37_BuffersOwnedOnce ==
    /\ \A p, q \in PacketIds : p # q => OwnedBy(p) \cap OwnedBy(q) = {}
    /\ ~heap.freed_twice
    /\ \A a \in Buffers :
          heap.cells[a].allocated => \E p \in PacketIds : a \in OwnedBy(p)

\* C33: a DNS response whose questions section yields no names is never
\* enqueued onto DnsInfoQueue: no record in the queue has an empty
\* domain_names.
C33_NoRecordWithoutNames ==
    \A k \in 1..Len(dns_info_queue) : dns_info_queue[k].domain_names # <<>>

\* C34: TrimQuotes(s) is s without its first and last character when s has
\* at least two characters and begins and ends with the same quote
\* character, and s unchanged in every other case.
C34_TrimQuotes ==
    trim_call.status = "returned" =>
        trim_call.output = Unquoted(trim_call.input)

C36_SettersRefusedOnceActivated ==
    [][ /\ (handle.pcap.activated /\ handle'.last \in BeforeActivation
                /\ handle' # handle)
              => /\ handle'.outcome.thrown
                 /\ handle'.outcome.exception = "NetworkAnalyserException"
                 /\ handle'.outcome.code = 4
                 /\ handle'.pcap = handle.pcap
        /\ (handle.refused # {} /\ handle'.last = "SetBpfFilter"
                /\ handle' # handle)
              => /\ ~handle'.outcome.thrown
                 /\ handle'.pcap.activated
                 /\ handle'.pcap.filter
      ]_vars

\* all five have thrown on the activated handle and SetBpfFilter, called
\* after them, has returned
C36_Witness ==
    /\ handle.refused = BeforeActivation
    /\ handle.last = "SetBpfFilter"
    /\ handle.was_activated
    /\ ~handle.outcome.thrown

\* C38: for every budget B the bytes of the packet buffer, of the
\* publisher queue's 1000 entries and of the packet and DNS info queues'
\* entries sum to at most B: the remainder after the first two is not
\* negative and the two queues fit into it.
C38_PlanWithinBudget ==
    sizes # NoSizes =>
        LET remaining == sizes.value - sizes.packet_buffer_size_
                             - sizes.publisher_queue_size_ * SizeofValidatedDomains
        IN  /\ remaining >= 0
            /\ sizes.packet_queue_size_ <= remaining \div SizeofDetectorPacket
            /\ sizes.dns_info_queue_size_ <= remaining \div SizeofDNSPacketInfo
            /\ sizes.packet_queue_size_ * SizeofDetectorPacket
                   + sizes.dns_info_queue_size_ * SizeofDNSPacketInfo <= remaining

=============================================================================
